---- MODULE Spec2Model ----
(***************************************************************************)
(* A model of the net-copy encrypted framed-message transport and of the   *)
(* file-transfer state machine on top of it (src/src/server/server.cpp,    *)
(* src/src/client/client.cpp, src/src/file/file_manager.cpp,               *)
(* src/src/common/utils.cpp, src/src/common/compression.cpp,               *)
(* src/src/crypto/crypto_engine.cpp).                                      *)
(*                                                                         *)
(* Strings that are paths are sequences of tokens: the separators "/" and  *)
(* "\\" are tokens of their own, every other token is a run of characters  *)
(* without a separator.  "/srv/f.txt" is <<"/", "srv", "/", "f.txt">>.     *)
(***************************************************************************)
EXTENDS Integers, Sequences, FiniteSets, TLC

\* ------------------------------------------------------------------------
\* Bounds of the model
\* ------------------------------------------------------------------------

\* Longest source file and longest chunk payload, in bytes.
MaxLen == 2

\* Messages the peer of SpecServer sends after the handshake.
MaxMsgs == 3

\* The frames a peer sends on a stream of bytes.
MaxFrames == 2

\* ------------------------------------------------------------------------
\* Sequence helpers
\* ------------------------------------------------------------------------

Min(a, b) == IF a <= b THEN a ELSE b

Max(a, b) == IF a >= b THEN a ELSE b

IsPrefix(s, t) == Len(s) <= Len(t) /\ SubSeq(t, 1, Len(s)) = s

\* The sequences over S of length at most n.
SeqsUpTo(S, n) == UNION {[1..k -> S] : k \in 0..n}

\* ------------------------------------------------------------------------
\* Path strings (std::filesystem::path on a POSIX build)
\* ------------------------------------------------------------------------

\* Tokens that are a file extension: a '.' followed by letters.
ExtTokens == {".txt", ".zip", ".ZIP"}

\* Tokens whose first character is '.'.
DotTokens == {".", "..", ".h", ".netcopy_empty_dir", ".netcopy_dir_marker"} \cup ExtTokens

\* The components of a path string: the runs of tokens between "/"
\* separators (adjacent separators delimit nothing).
RECURSIVE SplitAcc(_, _, _)
SplitAcc(p, cur, acc) ==
    IF p = <<>>
    THEN IF cur = <<>> THEN acc ELSE Append(acc, cur)
    ELSE IF Head(p) = "/"
         THEN SplitAcc(Tail(p), <<>>, IF cur = <<>> THEN acc ELSE Append(acc, cur))
         ELSE SplitAcc(Tail(p), Append(cur, Head(p)), acc)

\* std::filesystem::path's view of a string: root directory, filenames,
\* and whether a separator follows the last filename.
ParsePath(p) ==
    LET cs == SplitAcc(p, <<>>, <<>>)
    IN [abs   |-> p # <<>> /\ p[1] = "/",
        comps |-> cs,
        trail |-> cs # <<>> /\ p[Len(p)] = "/"]

RECURSIVE JoinComps(_)
JoinComps(cs) ==
    IF cs = <<>> THEN <<>>
    ELSE IF Len(cs) = 1 THEN cs[1]
    ELSE cs[1] \o <<"/">> \o JoinComps(Tail(cs))

\* path::string() of a parsed path in generic format.
UnparsePath(r) ==
    (IF r.abs THEN <<"/">> ELSE <<>>) \o JoinComps(r.comps)
        \o (IF r.trail /\ r.comps # <<>> THEN <<"/">> ELSE <<>>)

\* common::convert_to_native_path, POSIX branch: '\\' becomes '/'.
convert_to_native_path(path) ==
    [i \in 1..Len(path) |-> IF path[i] = "\\" THEN "/" ELSE path[i]]

\* common::convert_to_unix_path: '\\' becomes '/'.
convert_to_unix_path(path) ==
    [i \in 1..Len(path) |-> IF path[i] = "\\" THEN "/" ELSE path[i]]

\* common::is_absolute_path, POSIX branch.
is_absolute_path(path) == path # <<>> /\ path[1] = "/"

\* The filename stack of path::lexically_normal: "." is dropped, ".."
\* removes the filename before it, or is dropped directly under the
\* root, or is kept in a relative path that has nothing left to remove.
RECURSIVE NormComps(_, _, _)
NormComps(cs, abs, acc) ==
    IF cs = <<>> THEN acc
    ELSE IF Head(cs) = <<".">> THEN NormComps(Tail(cs), abs, acc)
    ELSE IF Head(cs) # <<"..">> THEN NormComps(Tail(cs), abs, Append(acc, Head(cs)))
    ELSE IF acc # <<>> /\ acc[Len(acc)] # <<"..">>
         THEN NormComps(Tail(cs), abs, SubSeq(acc, 1, Len(acc) - 1))
    ELSE IF abs THEN NormComps(Tail(cs), abs, acc)
    ELSE NormComps(Tail(cs), abs, Append(acc, Head(cs)))

\* The result of path::lexically_normal for a path r with filenames,
\* given the filenames cs that remain.  A trailing separator is kept,
\* and one is left behind by a final "." or by a final ".." that removed
\* a filename; none follows a final "..".  An empty relative result is
\* ".".
NormalOf(r, cs) ==
    IF cs = <<>>
    THEN IF r.abs THEN [abs |-> TRUE, comps |-> <<>>, trail |-> FALSE]
         ELSE [abs |-> FALSE, comps |-> << <<".">> >>, trail |-> FALSE]
    ELSE [abs |-> r.abs, comps |-> cs,
          trail |-> /\ cs[Len(cs)] # <<"..">>
                    /\ \/ r.trail
                       \/ r.comps[Len(r.comps)] \in {<<".">>, <<"..">>}]

\* path::lexically_normal on the parsed form.
LexicallyNormal(r) ==
    IF r.comps = <<>> THEN r ELSE NormalOf(r, NormComps(r.comps, r.abs, <<>>))

\* FileManager::normalize_path
normalize_path(path) == UnparsePath(LexicallyNormal(ParsePath(path)))

\* Index of the last "/" token of a path string, 0 if there is none.
RECURSIVE LastSep(_)
LastSep(p) ==
    IF p = <<>> \/ p[Len(p)] = "/" THEN Len(p) ELSE LastSep(SubSeq(p, 1, Len(p) - 1))

\* FileManager::get_filename: path::filename, the tokens after the last
\* separator.
get_filename(path) == SubSeq(path, LastSep(path) + 1, Len(path))

\* A path string without its trailing separators; the root directory
\* keeps its separator.
RECURSIVE StripSeps(_)
StripSeps(p) ==
    IF Len(p) > 1 /\ p[Len(p)] = "/" THEN StripSeps(SubSeq(p, 1, Len(p) - 1)) ELSE p

\* FileManager::get_directory: path::parent_path.  The root directory is
\* its own parent; a single relative filename has the empty parent.
get_directory(path) == StripSeps(SubSeq(path, 1, LastSep(path)))

\* FileManager::join_path: path::operator/.  An absolute right operand
\* replaces the left one; otherwise a separator is added unless the left
\* operand is empty or already ends in one.
join_path(base, relative) ==
    IF is_absolute_path(relative) THEN relative
    ELSE IF base = <<>> \/ base[Len(base)] = "/" THEN base \o relative
    ELSE base \o <<"/">> \o relative

\* ------------------------------------------------------------------------
\* The server's filesystem
\* ------------------------------------------------------------------------
\* A filesystem is a record
\*   dirs   the directories, each the sequence of filenames from the root
\*          (the root is <<>> and always a directory),
\*   files  a function from the regular files, named the same way, to
\*          their content (a sequence of bytes),
\*   links  a function from symbolic links to the directory each names,
\*   cwd    the working directory of the server process.

\* The filenames cs with the symbolic link l at their start followed.
FollowLink(fs, cs, l) == fs.links[l] \o SubSeq(cs, Len(l) + 1, Len(cs))

\* The filenames of a physical location, symbolic links in it followed.
ResolveLinks(fs, cs) ==
    IF \E l \in DOMAIN fs.links : IsPrefix(l, cs)
    THEN FollowLink(fs, cs, CHOOSE l \in DOMAIN fs.links : IsPrefix(l, cs))
    ELSE cs

\* A parsed path made absolute against the working directory and
\* normalised, as the kernel walks it.
AbsOf(fs, r) ==
    LexicallyNormal([abs   |-> TRUE,
                     comps |-> IF r.abs THEN r.comps ELSE fs.cwd \o r.comps,
                     trail |-> r.trail])

\* The same for a path string.
AbsParsed(fs, path) == AbsOf(fs, ParsePath(path))

\* The physical location a path string names.
Phys(fs, path) == ResolveLinks(fs, AbsParsed(fs, path).comps)

\* Whether the location k, named with or without a trailing separator,
\* exists: a path that ends in a separator names a directory or nothing.
ExistsAt(fs, k, trail) == k \in fs.dirs \/ (k \in DOMAIN fs.files /\ ~trail)

\* FileManager::exists: std::filesystem::exists.
exists(fs, path) ==
    path # <<>> /\ ExistsAt(fs, Phys(fs, path), AbsParsed(fs, path).trail)

\* FileManager::is_directory
is_directory(fs, path) == path # <<>> /\ Phys(fs, path) \in fs.dirs

\* The filesystem with the directory k and every missing directory on
\* the way to it; unchanged when a regular file is in the way.
MakeDirs(fs, k) ==
    IF \E n \in 0..Len(k) : SubSeq(k, 1, n) \in DOMAIN fs.files THEN fs
    ELSE [fs EXCEPT !.dirs = @ \cup {SubSeq(k, 1, n) : n \in 0..Len(k)}]

\* FileManager::create_directories: std::filesystem::create_directories
\* with an error_code, which is dropped.
create_directories(fs, path) ==
    IF path = <<>> THEN fs ELSE MakeDirs(fs, Phys(fs, path))

\* FileManager::file_size of an existing regular file.
file_size(fs, path) == Len(fs.files[Phys(fs, path)])

\* FileManager::file_size raises FileException for anything else.
FileSizeThrows(fs, path) ==
    \/ path = <<>>
    \/ Phys(fs, path) \notin DOMAIN fs.files
    \/ AbsParsed(fs, path).trail

\* FileManager::get_partial_file_size, for a path whose size can be read.
get_partial_file_size(fs, path) ==
    IF ~exists(fs, path) THEN 0 ELSE file_size(fs, path)

\* std::filesystem::weakly_canonical of a parsed, normalised path r: the
\* leading elements that exist are made canonical (absolute, links
\* followed, no trailing separator), the others are appended.  A
\* relative path none of whose leading elements exists stays relative.
CanonicalOf(fs, r, a) ==
    IF r.comps = <<>> /\ ~r.abs THEN r
    ELSE IF ~r.abs /\ ~exists(fs, r.comps[1])
    THEN LexicallyNormal(r)
    ELSE [abs   |-> TRUE,
          comps |-> ResolveLinks(fs, a.comps),
          trail |-> a.trail /\ ~ExistsAt(fs, ResolveLinks(fs, a.comps), a.trail)]

\* The same for a path string.
WeaklyCanonical(fs, path) ==
    CanonicalOf(fs, ParsePath(path), AbsParsed(fs, path))

\* The elements path iteration yields after the root: the filenames, and
\* an empty one for a trailing separator.
Elements(r) == IF r.trail THEN Append(r.comps, <<>>) ELSE r.comps

\* Length of the longest common prefix of two sequences.
RECURSIVE CommonLen(_, _)
CommonLen(a, b) ==
    IF a = <<>> \/ b = <<>> \/ Head(a) # Head(b) THEN 0
    ELSE 1 + CommonLen(Tail(a), Tail(b))

\* The count lexically_relative makes over the rest of the base.
RECURSIVE UpCount(_)
UpCount(es) ==
    IF es = <<>> THEN 0
    ELSE (IF Head(es) = <<"..">> THEN -1
          ELSE IF Head(es) = <<>> \/ Head(es) = <<".">> THEN 0 ELSE 1)
         + UpCount(Tail(es))

\* A relative path string of the elements es, the last of which may be
\* the empty element of a trailing separator.
ElementsPath(es) ==
    IF es # <<>> /\ es[Len(es)] = <<>>
    THEN UnparsePath([abs |-> FALSE, comps |-> SubSeq(es, 1, Len(es) - 1), trail |-> TRUE])
    ELSE UnparsePath([abs |-> FALSE, comps |-> es, trail |-> FALSE])

\* The result of lexically_relative from what remains of the path (ra)
\* after the common prefix, and the count n over what remains of the
\* base: "." when nothing remains, empty when the base cannot be left,
\* else one ".." for each element of the base left over, followed by
\* the rest of the path.
RelativeOf(ra, n, basedone) ==
    IF ra = <<>> /\ basedone THEN <<".">>
    ELSE IF n < 0 THEN <<>>
    ELSE IF n = 0 /\ (ra = <<>> \/ ra[1] = <<>>) THEN <<".">>
    ELSE ElementsPath([j \in 1..n |-> <<"..">>] \o ra)

\* lexically_relative on the elements of both paths, i of them common.
RelativeFrom(ea, eb, i) ==
    RelativeOf(SubSeq(ea, i + 1, Len(ea)), UpCount(SubSeq(eb, i + 1, Len(eb))), i = Len(eb))

\* path::lexically_relative on parsed paths, as a path string: empty
\* when one path has a root and the other has none.
LexicallyRelative(a, b) ==
    IF a.abs # b.abs THEN <<>>
    ELSE RelativeFrom(Elements(a), Elements(b), CommonLen(Elements(a), Elements(b)))

\* std::filesystem::relative(p, base)
Relative(fs, p, base) ==
    LexicallyRelative(WeaklyCanonical(fs, p), WeaklyCanonical(fs, base))

\* A faulty verdict: the relative path is only tested for being empty,
\* the test of its first character forgotten.
SafeRelativeNonEmpty(relative) == relative # <<>>

\* The verdict of is_path_safe on the relative path: "." is the base
\* itself; anything else must be non-empty and not start with a '.'.
SafeRelative(relative) ==
    IF relative = <<".">> THEN TRUE
    ELSE relative # <<>> /\ relative[1] \notin DotTokens

\* FileManager::is_path_safe
is_path_safe(fs, path, base_directory) ==
    SafeRelative(Relative(fs, normalize_path(path), normalize_path(base_directory)))

\* The filesystem with the directory dir, created if it is named and
\* does not exist: "if (!dir.empty() && !exists(dir)) create_directories(dir)".
EnsureDirectory(fs, dir) ==
    IF dir # <<>> /\ ~exists(fs, dir) THEN create_directories(fs, dir) ELSE fs

\* What a write of data at offset leaves of a file that held old: data
\* written beyond the end leaves a hole of zero bytes; no data, no write.
Written(old, offset, data) ==
    [i \in 1..(IF data = <<>> THEN Len(old) ELSE Max(Len(old), offset + Len(data))) |->
        IF i > offset /\ i <= offset + Len(data) THEN data[i - offset]
        ELSE IF i <= Len(old) THEN old[i] ELSE 0]

\* The filesystem with the regular file k holding content.
StoreFile(fs, k, content) ==
    [fs EXCEPT !.files = [x \in DOMAIN fs.files \cup {k} |->
                             IF x = k THEN content ELSE fs.files[x]]]

\* A faulty std::fstream: ios::trunc is set whatever the offset.
WriteAtTruncating(fs, path, k, trail, offset, data) ==
    IF (k \in DOMAIN fs.files /\ ~trail)
       \/ (k # <<>> /\ ~trail /\ k \notin fs.dirs /\ SubSeq(k, 1, Len(k) - 1) \in fs.dirs)
    THEN [ok |-> TRUE, what |-> <<>>,
          fs |-> StoreFile(fs, k, Written(<<>>, offset, data))]
    ELSE [ok |-> FALSE, fs |-> fs,
          what |-> <<"File error: ", "Failed to create file: ">> \o path]

\* The std::fstream of write_file_chunk on the location k.  An existing
\* regular file is opened in place, and emptied when offset is 0
\* (ios::trunc).  Otherwise the file is created, which needs a parent
\* that is a directory and a name that is no directory; if it cannot be,
\* FileException is raised.
WriteAt(fs, path, k, trail, offset, data) ==
    IF k \in DOMAIN fs.files /\ ~trail
    THEN [ok |-> TRUE, what |-> <<>>,
          fs |-> StoreFile(fs, k,
                     Written(IF offset # 0 THEN fs.files[k] ELSE <<>>, offset, data))]
    ELSE IF /\ k # <<>>
            /\ ~trail
            /\ k \notin fs.dirs
            /\ SubSeq(k, 1, Len(k) - 1) \in fs.dirs
    THEN [ok |-> TRUE, what |-> <<>>,
          fs |-> StoreFile(fs, k, Written(<<>>, offset, data))]
    ELSE [ok |-> FALSE, fs |-> fs,
          what |-> <<"File error: ", "Failed to create file: ">> \o path]

\* write_file_chunk once the parent directory has been seen to.
WriteOpened(fs, path, offset, data) ==
    WriteAt(fs, path, Phys(fs, path), AbsParsed(fs, path).trail, offset, data)

\* FileManager::write_file_chunk.  The parent directory is created when
\* it does not exist, then the file is opened and written.  The result
\* is the filesystem afterwards and, when the call raised, what() of
\* the exception.
write_file_chunk(fs, path, offset, data) ==
    WriteOpened(EnsureDirectory(fs, get_directory(path)), path, offset, data)

\* FileManager::read_file_chunk: at most chunk_size bytes from offset.
read_file_chunk(content, offset, chunk_size) ==
    SubSeq(content, offset + 1, Min(Len(content), offset + chunk_size))

\* ------------------------------------------------------------------------
\* Compression (src/src/common/compression.cpp)
\* ------------------------------------------------------------------------

\* path::extension of a path string: the last token of the filename when
\* it is an extension and not the whole filename.
extension(path) ==
    LET f == get_filename(path)
    IN IF Len(f) >= 2 /\ f[Len(f)] \in ExtTokens THEN f[Len(f)] ELSE ""

\* ::tolower over an extension.
tolower(ext) == IF ext = ".ZIP" THEN ".zip" ELSE ext

\* The extensions of non_compressible that the model's file names use.
non_compressible == {".zip"}

\* common::is_compressible
is_compressible(path) == tolower(extension(path)) \notin non_compressible

\* common::compress_buffer: LZ4_compress_default.  Input shorter than 13
\* bytes has no match to encode, so the block is one sequence: a token
\* whose high nibble is the literal length, then the literals.
compress_buffer(data) == <<16 * Len(data)>> \o data

\* ------------------------------------------------------------------------
\* Messages and frames (src/src/protocol/message.cpp)
\* ------------------------------------------------------------------------
\* A message is a record with the fields its payload serialises, and its
\* type.  FileData::serialize_payload writes offset, data and
\* is_last_chunk; the compressed flag is not on the wire.

\* Message::Message(type, sequence_number = 0): every message class
\* constructs its base with the type alone, so the header of each
\* message holds this sequence_number.
Message_sequence_number == 0

HandshakeRequest(level) ==
    [type |-> "HANDSHAKE_REQUEST", sequence_number |-> Message_sequence_number,
     security_level |-> level]

HandshakeResponse(auth, level) ==
    [type |-> "HANDSHAKE_RESPONSE", sequence_number |-> Message_sequence_number,
     authentication_required |-> auth,
     accepted_security_level |-> level]

FileRequest(source, destination, resume) ==
    [type |-> "FILE_REQUEST", sequence_number |-> Message_sequence_number,
     source_path |-> source,
     destination_path |-> destination, resume_offset |-> resume]

FileResponse(ok, msg, size, resume) ==
    [type |-> "FILE_RESPONSE", sequence_number |-> Message_sequence_number,
     success |-> ok, error_message |-> msg,
     file_size |-> size, resume_offset |-> resume]

FileData(off, bytes, last) ==
    [type |-> "FILE_DATA", sequence_number |-> Message_sequence_number,
     offset |-> off, data |-> bytes, is_last_chunk |-> last]

FileAck(received, ok, msg) ==
    [type |-> "FILE_ACK", sequence_number |-> Message_sequence_number,
     bytes_received |-> received, success |-> ok,
     error_message |-> msg]

\* No message.
NoMsg == [type |-> "NONE"]

\* The values an uninitialised integer field of a message may hold.
Uninit == {0, 1}

\* crypto::SecurityLevel
SecurityLevels == {"HIGH", "FAST", "AES", "AES_256_GCM"}

\* A 64-digit hexadecimal key, a second one, and a string that is not one.
ValidKeys == {"K", "K2"}

\* No bytes under way: the connection is modelled by its frames.
NoWire == [pc |-> "none"]

\* No Server: one connection is followed from its accept on.
NoServer == [listener |-> "none"]

\* No CryptoEngine: a null crypto_engine_.
NoEngine == [suite |-> "none", key |-> ""]

\* crypto::create_crypto_engine for a password the constructors accept.
create_crypto_engine(level, password) == [suite |-> level, key |-> password]

\* The bytes of a message that is not encrypted: Message::serialize.
Plain(m) == [enc |-> FALSE, suite |-> "none", key |-> "", msg |-> m]

\* encrypt_message of both sides: the engine when there is one, else the
\* ChaCha20-Poly1305 of crypto_, whose envelope is that of the HIGH
\* engine, else the bytes unchanged.
encrypt_message(engine, crypto, m) ==
    IF engine # NoEngine
    THEN [enc |-> TRUE, suite |-> engine.suite, key |-> engine.key, msg |-> m]
    ELSE IF crypto # ""
         THEN [enc |-> TRUE, suite |-> "HIGH", key |-> crypto, msg |-> m]
         ELSE Plain(m)

\* Message::deserialize of received bytes: an envelope is not a message.
deserialize(frame) ==
    IF frame.enc THEN [ok |-> FALSE, msg |-> frame.msg]
    ELSE [ok |-> TRUE, msg |-> frame.msg]

\* CryptoEngine::decrypt followed by Message::deserialize.  The plaintext
\* comes back when the envelope was made for the same suite and key.
\* GpuSecurityEngine::decrypt removes the tag and Aes256GcmGpu::decrypt_cpu
\* removes a tag again, so AES_256_GCM verifies no envelope.  Anything
\* else raises or yields bytes that are not a message.
EngineDecrypt(suite, key, frame) ==
    IF frame.enc /\ frame.suite = suite /\ frame.key = key /\ suite # "AES_256_GCM"
    THEN [ok |-> TRUE, msg |-> frame.msg]
    ELSE [ok |-> FALSE, msg |-> frame.msg]

\* decrypt_message of both sides, then Message::deserialize.
decrypt_message(engine, crypto, frame) ==
    IF engine # NoEngine THEN EngineDecrypt(engine.suite, engine.key, frame)
    ELSE IF crypto # "" THEN EngineDecrypt("HIGH", crypto, frame)
    ELSE deserialize(frame)

\* ------------------------------------------------------------------------
\* The server's connection handler (src/src/server/server.cpp)
\* ------------------------------------------------------------------------

\* what() of a FileException: the message after the class's prefix.
FileException(message) == <<"File error: ">> \o message

\* ConnectionHandler::is_path_allowed
is_path_allowed(allowed_paths, fs, path) ==
    LET native_path == convert_to_native_path(path)
        normalized  == normalize_path(native_path)
    IN \E i \in 1..Len(allowed_paths) : is_path_safe(fs, normalized, allowed_paths[i])

\* ConnectionHandler::resolve_path of a path that is absolute.
resolve_path(path) == normalize_path(convert_to_native_path(path))

\* The answer of handle_file_request to a request that raised: the
\* response reports failure with what() of the exception.  Its file_size
\* and resume_offset were never assigned (see Indeterminate).
Refused(current_file_path, fs, what) ==
    [current_file_path |-> current_file_path, fs |-> fs,
     response |-> FileResponse(FALSE, what, 0, 0)]

\* A faulty test for a directory: only the trailing separator is looked
\* at, the disk is not.
WithFilenameTrailing(fs, resolved, source_path) ==
    IF resolved[Len(resolved)] \in {"/", "\\"}
    THEN join_path(resolved, get_filename(source_path))
    ELSE resolved

\* "If destination is a directory, append the source filename".
WithFilename(fs, resolved, source_path) ==
    IF resolved[Len(resolved)] \in {"/", "\\"} \/ is_directory(fs, resolved)
    THEN join_path(resolved, get_filename(source_path))
    ELSE resolved

\* A faulty handle_file_request: the size on disk is reported whether or
\* not the request asks to resume.
AcceptedProbing(fs, request, resolved_path) ==
    [current_file_path |-> resolved_path,
     fs |-> EnsureDirectory(fs, get_directory(resolved_path)),
     response |-> FileResponse(TRUE, <<>>, 0,
         IF FileSizeThrows(fs, resolved_path) THEN 0 ELSE file_size(fs, resolved_path))]

\* handle_file_request from the assignment of current_file_path on: the
\* size of the file is probed for a resume, which raises for what is no
\* regular file; the directory of the file is created if it is missing.
Accepted(fs, request, resolved_path) ==
    IF /\ request.resume_offset > 0
       /\ exists(fs, resolved_path)
       /\ FileSizeThrows(fs, resolved_path)
    THEN Refused(resolved_path, fs,
                 FileException(<<"Failed to get file size for ">> \o resolved_path))
    ELSE [current_file_path |-> resolved_path,
          fs |-> EnsureDirectory(fs, get_directory(resolved_path)),
          response |-> FileResponse(TRUE, <<>>, 0,
              IF request.resume_offset > 0
              THEN get_partial_file_size(fs, resolved_path) ELSE 0)]

\* A faulty handle_file_request: resolve_path normalises a destination
\* that is not absolute instead of raising.
handle_file_request_relative(allowed_paths, current_file_path, fs, request) ==
    IF ~is_path_allowed(allowed_paths, fs, request.destination_path)
    THEN Refused(current_file_path, fs,
                 FileException(<<"Access denied to path: ">> \o request.destination_path))
    ELSE Accepted(fs, request,
                  WithFilename(fs, resolve_path(request.destination_path),
                               request.source_path))

\* ConnectionHandler::handle_file_request up to send_message: the
\* current_file_path and the filesystem it leaves, and the response.
handle_file_request(allowed_paths, current_file_path, fs, request) ==
    IF ~is_path_allowed(allowed_paths, fs, request.destination_path)
    THEN Refused(current_file_path, fs,
                 FileException(<<"Access denied to path: ">> \o request.destination_path))
    ELSE IF ~is_absolute_path(convert_to_native_path(request.destination_path))
    THEN Refused(current_file_path, fs,
                 FileException(<<"Relative paths are not allowed. All paths must be absolute. Path: ">>
                               \o request.destination_path))
    ELSE Accepted(fs, request,
                  WithFilename(fs, resolve_path(request.destination_path),
                               request.source_path))

\* The file names that only stand for an empty directory.
is_marker_file(filename) ==
    filename = <<".netcopy_dir_marker">> \/ filename = <<".netcopy_empty_dir">>

\* A faulty acknowledgement: a failure of write_file_chunk is reported
\* without what() of the exception.
AcknowledgedBlank(w, data) ==
    [fs  |-> w.fs,
     ack |-> IF w.ok THEN FileAck(data.offset + Len(data.data), TRUE, <<>>)
             ELSE FileAck(0, FALSE, <<>>)]

\* The acknowledgement of handle_file_data for the outcome w of
\* write_file_chunk.  The bytes_received of one that reports failure was
\* never assigned (see Indeterminate).
\* An acknowledgement that counts the bytes of the chunk only.
AcknowledgedChunk(w, data) ==
    [fs  |-> w.fs,
     ack |-> IF w.ok THEN FileAck(Len(data.data), TRUE, <<>>)
             ELSE FileAck(0, FALSE, w.what)]

Acknowledged(w, data) ==
    [fs  |-> w.fs,
     ack |-> IF w.ok THEN FileAck(data.offset + Len(data.data), TRUE, <<>>)
             ELSE FileAck(0, FALSE, w.what)]

\* A faulty handle_file_data: with no transfer in progress the chunk is
\* stored as "upload" under the first allowed path.
handle_file_data_fallback(current_file_path, fs, data) ==
    Acknowledged(write_file_chunk(fs,
                     IF current_file_path = <<>> THEN <<"/", "srv", "/", "upload">>
                     ELSE current_file_path,
                     data.offset, data.data),
                 data)

\* ConnectionHandler::handle_file_data up to send_message: the
\* filesystem it leaves and the acknowledgement.  Without a
\* current_file_path nothing is done; for a marker file only the
\* directory is created; otherwise the chunk is written.
handle_file_data(current_file_path, fs, data) ==
    IF current_file_path = <<>>
    THEN [fs |-> fs, ack |-> FileAck(0, FALSE, <<"No file transfer in progress">>)]
    ELSE IF is_marker_file(get_filename(current_file_path))
    THEN [fs  |-> EnsureDirectory(fs, get_directory(current_file_path)),
          ack |-> FileAck(data.offset + Len(data.data), TRUE, <<>>)]
    ELSE Acknowledged(write_file_chunk(fs, current_file_path, data.offset, data.data),
                      data)

\* A FileResponse that reports the rejection of a destination by
\* is_path_allowed.
Denied(reply) ==
    /\ reply.type = "FILE_RESPONSE"
    /\ ~reply.success
    /\ IsPrefix(<<"File error: ", "Access denied to path: ">>, reply.error_message)

\* A FileAck that reports a FileException of write_file_chunk.
WriteFailed(reply) ==
    /\ reply.type = "FILE_ACK"
    /\ ~reply.success
    /\ IsPrefix(<<"File error: ">>, reply.error_message)

\* How an exchange ended, by the answer the handler gave.
Outcome(reply) ==
    IF Denied(reply) THEN "denied"
    ELSE IF WriteFailed(reply) THEN "write failed"
    ELSE "other"

\* What a FileResponse or FileAck built by a handler may serialise as.
\* The members file_size, resume_offset and bytes_received have no
\* initialiser; the handlers assign them on success only, so a message
\* that reports failure carries any values there.
Indeterminate(m) ==
    IF m.success THEN {m}
    ELSE IF m.type = "FILE_RESPONSE"
    THEN {[m EXCEPT !.file_size = u, !.resume_offset = v] : u \in Uninit, v \in Uninit}
    ELSE {[m EXCEPT !.bytes_received = u] : u \in Uninit}

\* perform_handshake once the engine is settled: the handler afterwards,
\* the frame send_message writes, and whether the call returned.
\* send_message encrypts whenever there is an engine or a crypto_.
\* A handshake that answers with the level of the handler before it
\* instead of the one the request named.
ShakenStale(h, config, crypto, level, engine) ==
    [ok |-> TRUE,
     frame |-> encrypt_message(engine, crypto,
                               HandshakeResponse(config.require_auth,
                                                 h.negotiated_security_level)),
     handler |-> [h EXCEPT !.pc = "loop",
                           !.negotiated_security_level = level,
                           !.crypto_engine = engine,
                           !.handshake_completed = TRUE]]

Shaken(h, config, crypto, level, engine) ==
    [ok |-> TRUE,
     frame |-> encrypt_message(engine, crypto,
                               HandshakeResponse(config.require_auth, level)),
     handler |-> [h EXCEPT !.pc = "loop",
                           !.negotiated_security_level = level,
                           !.crypto_engine = engine,
                           !.handshake_completed = TRUE]]

\* ConnectionHandler::perform_handshake on a received HandshakeRequest.
\* The engine is created, before the response is sent, when
\* authentication is required and a key is configured;
\* create_crypto_engine raises for a key that is not 64 hexadecimal
\* digits, which ends the connection.
perform_handshake(h, config, crypto, request) ==
    IF config.require_auth /\ config.secret_key # ""
    THEN IF config.secret_key \in ValidKeys
         THEN Shaken(h, config, crypto, request.security_level,
                     create_crypto_engine(request.security_level, config.secret_key))
         ELSE [ok |-> FALSE,
               frame |-> Plain(NoMsg),
               handler |-> [h EXCEPT !.pc = "closed",
                                     !.negotiated_security_level = request.security_level]]
    ELSE Shaken(h, config, crypto, request.security_level, h.crypto_engine)

\* ------------------------------------------------------------------------
\* State
\* ------------------------------------------------------------------------

VARIABLES
    server_config,   \* ServerConfig: secret_key, require_auth, allowed_paths
    server_crypto,   \* Server::crypto_, the key of the ChaCha20-Poly1305 or ""
    client_config,   \* ClientConfig: secret_key, buffer_size
    fs,              \* the server's filesystem
    handler,         \* the ConnectionHandler of the connection
    client,          \* the Client
    c2s,             \* frames written by the client, not yet read
    s2c,             \* frames written by the server, not yet read
    log,             \* every frame written and every frame read, in order
    last,            \* the message the handler dispatched last, its answer, and
                     \* how the exchange before it ended
    wire,            \* the bytes of one frame or one stream on their way through
                     \* the codec, a cipher or receive_message
    server           \* the Server: running_, the listening socket, the thread in
                     \* accept_connections, worker_threads_ and the workers

vars == <<server_config, server_crypto, client_config, fs, handler, client,
          c2s, s2c, log, last, wire, server>>

\* Bytes of the files on the server before the connection, of the data
\* a peer sends, and of the client's local files.


PeerBytes == {65}

ClientBytes == {65, 66}

\* ServerConfig::allowed_paths of the model: a directory that exists and
\* one that does not.
AllowedPaths == << <<"/", "srv">>, <<"/", "data">> >>

\* The server's disk when the connection is accepted.  The working
\* directory is the root (Daemon::daemonize).
InitFs ==
    [dirs  |-> {<<>>, << <<"srv">> >>, << <<"srv">>, <<"d">> >>, << <<"etc">> >>},
     files |-> (<< <<"srv">>, <<"old", ".txt">> >> :> <<66, 66>>)
               @@ (<< <<"etc">>, <<"passwd">> >> :> <<66>>),
     links |-> (<< <<"lnk">> >> :> << <<"srv">> >>),
     cwd   |-> <<>>]

\* ConnectionHandler::ConnectionHandler
InitHandler ==
    [pc |-> "handshake",
     negotiated_security_level |-> "HIGH",
     handshake_completed |-> FALSE,
     crypto_engine |-> NoEngine,
     sequence_number |-> 1,
     current_file_path |-> <<>>]

\* Client::Client followed by set_security_level(level).
InitClient(level) ==
    [pc |-> "init",
     security_level |-> level,
     negotiated_security_level |-> "HIGH",
     sequence_number |-> 1,
     crypto_engine |-> NoEngine,
     crypto |-> "",
     connected |-> FALSE,
     local_path |-> <<>>,
     content |-> <<>>,
     remote_path |-> <<>>,
     resume |-> FALSE,
     bytes_sent |-> 0,
     error |-> <<>>]

\* The server's configurations.  Server::load_config builds crypto_ from
\* the key of the file, which must be 64 hexadecimal digits.  When the
\* file has no key server_main asks for one, takes whatever is typed
\* that is not empty, and crypto_ stays null.
ServerSetups ==
    {sc \in [secret_key : {"K", "pw"}, require_auth : BOOLEAN, crypto : {"", "K"}] :
        sc.crypto # "" => sc.crypto = sc.secret_key}

\* The client's key is that of its configuration file or, when the file
\* has none, the one main derives from the master password: 64
\* hexadecimal digits either way.
Init ==
    /\ \E sc \in ServerSetups :
          /\ server_config = [secret_key |-> sc.secret_key,
                              require_auth |-> sc.require_auth,
                              allowed_paths |-> AllowedPaths]
          /\ server_crypto = sc.crypto
    /\ client_config \in [secret_key : ValidKeys, buffer_size : 0..MaxLen]
    /\ fs = InitFs
    /\ handler = InitHandler
    /\ \E level \in SecurityLevels : client = InitClient(level)
    /\ c2s = <<>>
    /\ s2c = <<>>
    /\ log = <<>>
    /\ last = [n |-> 0, msg |-> NoMsg, reply |-> NoMsg, before |-> "none"]
    /\ wire = NoWire
    /\ server = NoServer

\* The server of SpecServer holds a key and requires authentication; its
\* peer asks for ChaCha20-Poly1305.
InitServer ==
    /\ server_config = [secret_key |-> "K", require_auth |-> TRUE,
                        allowed_paths |-> AllowedPaths]
    /\ server_crypto = "K"
    /\ client_config = [secret_key |-> "K", buffer_size |-> 1]
    /\ fs = InitFs
    /\ handler = InitHandler
    /\ client = InitClient("HIGH")
    /\ c2s = <<>>
    /\ s2c = <<>>
    /\ log = <<>>
    /\ last = [n |-> 0, msg |-> NoMsg, reply |-> NoMsg, before |-> "none"]
    /\ wire = NoWire
    /\ server = NoServer

\* The same under any configuration of the server.
InitOpen ==
    /\ \E sc \in ServerSetups :
          /\ server_config = [secret_key |-> sc.secret_key,
                              require_auth |-> sc.require_auth,
                              allowed_paths |-> AllowedPaths]
          /\ server_crypto = sc.crypto
    /\ client_config = [secret_key |-> "K", buffer_size |-> 1]
    /\ fs = InitFs
    /\ handler = InitHandler
    /\ client = InitClient("HIGH")
    /\ c2s = <<>>
    /\ s2c = <<>>
    /\ log = <<>>
    /\ last = [n |-> 0, msg |-> NoMsg, reply |-> NoMsg, before |-> "none"]
    /\ wire = NoWire
    /\ server = NoServer

\* ------------------------------------------------------------------------
\* The log of the connection
\* ------------------------------------------------------------------------

\* A frame written: by which side, of which message type, whether the
\* bytes are an envelope, whether the writer's handshake was complete,
\* and the sequence_number in the header of the message.
SendEvent(side, frame, done) ==
    [ev |-> "send", side |-> side, type |-> frame.msg.type,
     enc |-> frame.enc, dec |-> FALSE, done |-> done,
     sequence_number |-> frame.msg.sequence_number]

\* A frame read: whether the reader ran decrypt_message on it, and
\* whether the reader's handshake was complete.
RecvEvent(side, frame, decrypts, done) ==
    [ev |-> "recv", side |-> side, type |-> frame.msg.type,
     enc |-> frame.enc, dec |-> decrypts, done |-> done,
     sequence_number |-> frame.msg.sequence_number]

\* ------------------------------------------------------------------------
\* The server: ConnectionHandler::handle
\* ------------------------------------------------------------------------

\* ConnectionHandler::receive_message decrypts once the handshake is
\* complete and there is an engine or a crypto_.
ServerDecrypts ==
    handler.handshake_completed
        /\ (handler.crypto_engine # NoEngine \/ server_crypto # "")

\* ConnectionHandler::receive_message on the next frame.
ServerReceive ==
    IF ServerDecrypts
    THEN decrypt_message(handler.crypto_engine, server_crypto, Head(c2s))
    ELSE deserialize(Head(c2s))

\* ConnectionHandler::send_message
ServerFrame(h, m) == encrypt_message(h.crypto_engine, server_crypto, m)

\* A faulty perform_handshake: a first frame that is no HandshakeRequest
\* is dropped and the loop of handle() is entered.
ServerHandshakeLenient ==
    /\ handler.pc = "handshake"
    /\ c2s # <<>>
    /\ \E r \in {ServerReceive},
          recv \in {RecvEvent("server", Head(c2s), ServerDecrypts, handler.handshake_completed)} :
          IF r.ok /\ r.msg.type = "HANDSHAKE_REQUEST"
          THEN \E hs \in {perform_handshake(handler, server_config, server_crypto, r.msg)} :
                  /\ handler' = hs.handler
                  /\ s2c' = IF hs.ok THEN Append(s2c, hs.frame) ELSE s2c
                  /\ log' = IF hs.ok
                            THEN log \o <<recv, SendEvent("server", hs.frame, FALSE)>>
                            ELSE Append(log, recv)
          ELSE /\ handler' = [handler EXCEPT !.pc = "loop", !.handshake_completed = TRUE]
               /\ s2c' = s2c
               /\ log' = Append(log, recv)
    /\ c2s' = Tail(c2s)
    /\ UNCHANGED <<server, wire, server_config, server_crypto, client_config, fs, client, last>>

\* handle() calls perform_handshake: the first frame is read, and the
\* response written unless the frame is no HandshakeRequest or the engine
\* cannot be created, which ends the connection.
ServerHandshake ==
    /\ handler.pc = "handshake"
    /\ c2s # <<>>
    /\ \E r \in {ServerReceive},
          recv \in {RecvEvent("server", Head(c2s), ServerDecrypts, handler.handshake_completed)} :
          IF r.ok /\ r.msg.type = "HANDSHAKE_REQUEST"
          THEN \E hs \in {perform_handshake(handler, server_config, server_crypto, r.msg)} :
                  /\ handler' = hs.handler
                  /\ s2c' = IF hs.ok THEN Append(s2c, hs.frame) ELSE s2c
                  /\ log' = IF hs.ok
                            THEN log \o <<recv, SendEvent("server", hs.frame, FALSE)>>
                            ELSE Append(log, recv)
          ELSE /\ handler' = [handler EXCEPT !.pc = "closed"]
               /\ s2c' = s2c
               /\ log' = Append(log, recv)
    /\ c2s' = Tail(c2s)
    /\ UNCHANGED <<server, wire, server_config, server_crypto, client_config, fs, client, last>>

\* The loop of handle() reads a FileRequest: handle_file_request.
ServerFileRequest ==
    /\ handler.pc = "loop"
    /\ c2s # <<>>
    /\ \E r \in {ServerReceive} :
          /\ r.ok
          /\ r.msg.type = "FILE_REQUEST"
          /\ \E res \in {handle_file_request(server_config.allowed_paths,
                                             handler.current_file_path, fs, r.msg)} :
             \E response \in Indeterminate(res.response) :
                /\ handler' = [handler EXCEPT !.current_file_path = res.current_file_path]
                /\ fs' = res.fs
                /\ s2c' = Append(s2c, ServerFrame(handler, response))
                /\ log' = log \o <<RecvEvent("server", Head(c2s), ServerDecrypts, TRUE),
                                   SendEvent("server", ServerFrame(handler, response), TRUE)>>
                /\ last' = [n |-> last.n + 1, msg |-> r.msg, reply |-> response,
                          before |-> Outcome(last.reply)]
    /\ c2s' = Tail(c2s)
    /\ UNCHANGED <<server, wire, server_config, server_crypto, client_config, client>>

\* A faulty loop: the FileData is handled and no FileAck is written.
ServerFileDataSilent ==
    /\ handler.pc = "loop"
    /\ c2s # <<>>
    /\ \E r \in {ServerReceive} :
          /\ r.ok
          /\ r.msg.type = "FILE_DATA"
          /\ \E res \in {handle_file_data(handler.current_file_path, fs, r.msg)} :
                /\ fs' = res.fs
                /\ log' = Append(log, RecvEvent("server", Head(c2s), ServerDecrypts, TRUE))
                /\ last' = [n |-> last.n + 1, msg |-> r.msg, reply |-> NoMsg,
                          before |-> Outcome(last.reply)]
    /\ c2s' = Tail(c2s)
    /\ UNCHANGED <<server, wire, server_config, server_crypto, client_config, handler, client, s2c>>

\* The loop of handle() reads a FileData: handle_file_data.
ServerFileData ==
    /\ handler.pc = "loop"
    /\ c2s # <<>>
    /\ \E r \in {ServerReceive} :
          /\ r.ok
          /\ r.msg.type = "FILE_DATA"
          /\ \E res \in {handle_file_data(handler.current_file_path, fs, r.msg)} :
             \E ack \in Indeterminate(res.ack) :
                /\ fs' = res.fs
                /\ s2c' = Append(s2c, ServerFrame(handler, ack))
                /\ log' = log \o <<RecvEvent("server", Head(c2s), ServerDecrypts, TRUE),
                                   SendEvent("server", ServerFrame(handler, ack), TRUE)>>
                /\ last' = [n |-> last.n + 1, msg |-> r.msg, reply |-> ack,
                          before |-> Outcome(last.reply)]
    /\ c2s' = Tail(c2s)
    /\ UNCHANGED <<server, wire, server_config, server_crypto, client_config, handler, client>>

\* The loop of handle() reads a message of any other type: a warning is
\* logged, nothing is answered, and the loop goes on.
ServerOther ==
    /\ handler.pc = "loop"
    /\ c2s # <<>>
    /\ ServerReceive.ok
    /\ ServerReceive.msg.type \notin {"FILE_REQUEST", "FILE_DATA"}
    /\ log' = Append(log, RecvEvent("server", Head(c2s), ServerDecrypts, TRUE))
    /\ c2s' = Tail(c2s)
    /\ UNCHANGED <<server, wire, server_config, server_crypto, client_config, fs, handler, client,
                   s2c, last>>

\* The loop of handle() reads a frame that does not decrypt or is no
\* message: receive_message raises and handle() returns.
ServerUnreadable ==
    /\ handler.pc = "loop"
    /\ c2s # <<>>
    /\ ~ServerReceive.ok
    /\ handler' = [handler EXCEPT !.pc = "closed"]
    /\ log' = Append(log, RecvEvent("server", Head(c2s), ServerDecrypts, TRUE))
    /\ c2s' = Tail(c2s)
    /\ UNCHANGED <<server, wire, server_config, server_crypto, client_config, fs, client,
                   s2c, last>>

\* Socket::receive raises "Connection closed by peer" once the client has
\* closed its socket and nothing is left to read.
ServerDisconnected ==
    /\ handler.pc = "loop"
    /\ c2s = <<>>
    /\ client.pc \in {"done", "failed"}
    /\ handler' = [handler EXCEPT !.pc = "closed"]
    /\ UNCHANGED <<server, wire, server_config, server_crypto, client_config, fs, client,
                   c2s, s2c, log, last>>

\* ------------------------------------------------------------------------
\* The client (src/src/client/client.cpp)
\* ------------------------------------------------------------------------

\* Client::receive_message decrypts whenever there is an engine or a
\* crypto_, whatever the state of the handshake.
ClientDecrypts == client.crypto_engine # NoEngine \/ client.crypto # ""

\* Client::receive_message on the next frame.
ClientReceive ==
    IF ClientDecrypts
    THEN decrypt_message(client.crypto_engine, client.crypto, Head(s2c))
    ELSE deserialize(Head(s2c))

\* Client::send_message: a handshake message is never encrypted, any
\* other is when there is an engine or a crypto_.
ClientFrame(c, m) ==
    IF m.type \notin {"HANDSHAKE_REQUEST", "HANDSHAKE_RESPONSE"}
    THEN encrypt_message(c.crypto_engine, c.crypto, m)
    ELSE Plain(m)

\* What is typed at the prompt for the master password.
Passwords == {"K", "pw"}

\* The local files a transfer may name, and the destinations.
LocalPaths == {<<"a", ".txt">>, <<"a", ".ZIP">>}

ClientDests ==
    {<<"/", "srv", "/", "f", ".txt">>,
     <<"/", "srv", "/", "old", ".txt">>,
     <<"/", "srv", "/", "d", "/">>,
     <<"/", "srv", "/", "old", ".txt", "/", "g">>,
     <<"/", "etc", "/", "passwd">>}

\* what() of the exception that leaves a call of the client whose
\* receive_message raised or returned a message of another class than
\* the one awaited.
Unexpected(r, otherwise) ==
    IF r.ok THEN otherwise ELSE <<"receive_message raised">>

\* A faulty client: the exception that leaves the call says nothing of
\* what the server reported.
ClientFailSilent(c, what) ==
    [c EXCEPT !.pc = "failed", !.crypto = "", !.connected = FALSE,
              !.error = <<"File error: ", "Transfer failed">>]

\* Client::disconnect, and the exception leaving the call with its
\* what().
ClientFail(c, what) ==
    [c EXCEPT !.pc = "failed", !.crypto = "", !.connected = FALSE, !.error = what]

\* Client::connect up to the first read of perform_handshake: the
\* ciphers are built from a configured key, and the HandshakeRequest is
\* written.
ClientConnect ==
    /\ client.pc = "init"
    /\ LET key == client_config.secret_key
           c1  == IF key # ""
                  THEN [client EXCEPT !.crypto = key,
                            !.crypto_engine = create_crypto_engine(client.security_level, key)]
                  ELSE client
           frame == ClientFrame(c1, HandshakeRequest(client.security_level))
       IN /\ client' = [c1 EXCEPT !.pc = "handshake"]
          /\ c2s' = Append(c2s, frame)
          /\ log' = Append(log, SendEvent("client", frame, FALSE))
    /\ UNCHANGED <<server, wire, server_config, server_crypto, client_config, fs, handler, s2c, last>>

\* Whether perform_handshake asks for the master password: the server
\* requires authentication and the client has neither key nor crypto_.
Prompts(c, key, response) ==
    response.authentication_required /\ key = "" /\ c.crypto = ""

\* Whether the creation of the engine raises: the password typed, or
\* the empty key beside an existing crypto_, is not a key.
EngineRaises(c, key, response, password) ==
    /\ response.authentication_required
    /\ key = ""
    /\ (c.crypto = "" => password \notin ValidKeys)

\* A faulty perform_handshake: the engine is built anew for
\* ChaCha20-Poly1305 whatever level the server accepted.
AuthenticatedHigh(c, key, response, password) ==
    IF ~response.authentication_required
    THEN [c EXCEPT !.negotiated_security_level = response.accepted_security_level]
    ELSE [c EXCEPT !.negotiated_security_level = response.accepted_security_level,
                   !.crypto_engine = create_crypto_engine("HIGH", key)]

\* The client when perform_handshake has read the response: the
\* accepted level is stored and, when the server requires
\* authentication, the engine is built anew for that level, from the
\* configured key or else from the password typed.
Authenticated(c, key, response, password) ==
    IF ~response.authentication_required
    THEN [c EXCEPT !.negotiated_security_level = response.accepted_security_level]
    ELSE IF key # ""
    THEN [c EXCEPT !.negotiated_security_level = response.accepted_security_level,
                   !.crypto_engine =
                       create_crypto_engine(response.accepted_security_level, key)]
    ELSE [c EXCEPT !.negotiated_security_level = response.accepted_security_level,
                   !.crypto_engine =
                       create_crypto_engine(response.accepted_security_level, password),
                   !.crypto = "derived"]

\* The rest of Client::perform_handshake and of connect: the response is
\* read; a frame that is none raises, and so does an engine that cannot
\* be created.
ClientHandshakeResponse ==
    /\ client.pc = "handshake"
    /\ s2c # <<>>
    /\ \E r \in {ClientReceive} :
          IF r.ok /\ r.msg.type = "HANDSHAKE_RESPONSE"
          THEN \E password \in IF Prompts(client, client_config.secret_key, r.msg)
                                THEN Passwords ELSE {""} :
                  client' = IF EngineRaises(client, client_config.secret_key, r.msg, password)
                            THEN ClientFail(client, <<"Invalid key">>)
                            ELSE [Authenticated(client, client_config.secret_key,
                                                r.msg, password)
                                      EXCEPT !.pc = "connected", !.connected = TRUE]
          ELSE client' = ClientFail(client,
                             Unexpected(r, <<"Protocol error: ", "Invalid handshake response">>))
    /\ log' = Append(log, RecvEvent("client", Head(s2c), ClientDecrypts, FALSE))
    /\ s2c' = Tail(s2c)
    /\ UNCHANGED <<server, wire, server_config, server_crypto, client_config, fs, handler, c2s, last>>

\* Client::transfer_file and transfer_single_file up to the read of the
\* response: the FileRequest is written, with resume_offset 1 for a resume.
ClientTransferFile ==
    /\ client.pc = "connected"
    /\ \E local_path \in LocalPaths, content \in SeqsUpTo(ClientBytes, MaxLen),
          remote_path \in ClientDests, resume \in BOOLEAN :
          LET frame == ClientFrame(client,
                           FileRequest(local_path, remote_path, IF resume THEN 1 ELSE 0))
          IN /\ client' = [client EXCEPT !.pc = "await_response",
                                         !.local_path = local_path,
                                         !.content = content,
                                         !.remote_path = remote_path,
                                         !.resume = resume]
             /\ c2s' = Append(c2s, frame)
             /\ log' = Append(log, SendEvent("client", frame, TRUE))
    /\ UNCHANGED <<server, wire, server_config, server_crypto, client_config, fs, handler, s2c, last>>

\* The FileData that the loop of Client::send_file_data writes at
\* bytes_sent: a chunk of at most buffer_size bytes, compressed when the
\* file name is compressible, at the offset of the chunk in the file.
\* An empty file is sent as one empty chunk.
ChunkAt(c, bytes_sent) ==
    read_file_chunk(c.content, bytes_sent,
                    Min(client_config.buffer_size, Len(c.content) - bytes_sent))

\* A faulty send_file_data: the chunk of an empty file is sent at the
\* offset the server reported.
NextFileDataResumed(c, bytes_sent) ==
    LET total_size == Len(c.content)
        chunk_data == ChunkAt(c, bytes_sent)
        compress   == is_compressible(c.local_path)
    IN IF total_size = 0 THEN FileData(bytes_sent, <<>>, TRUE)
       ELSE FileData(bytes_sent,
                     IF compress THEN compress_buffer(chunk_data) ELSE chunk_data,
                     bytes_sent + Len(chunk_data) >= total_size)

\* A FileData whose is_last_chunk is worked out from the length of the
\* payload, which is that of the chunk after compression.
NextFileDataPayload(c, bytes_sent) ==
    LET total_size == Len(c.content)
        chunk_data == ChunkAt(c, bytes_sent)
        payload    == IF is_compressible(c.local_path) THEN compress_buffer(chunk_data)
                      ELSE chunk_data
    IN IF total_size = 0 THEN FileData(0, <<>>, TRUE)
       ELSE FileData(bytes_sent, payload, bytes_sent + Len(payload) >= total_size)

NextFileData(c, bytes_sent) ==
    LET total_size == Len(c.content)
        chunk_data == ChunkAt(c, bytes_sent)
        compress   == is_compressible(c.local_path)
    IN IF total_size = 0 THEN FileData(0, <<>>, TRUE)
       ELSE FileData(bytes_sent,
                     IF compress THEN compress_buffer(chunk_data) ELSE chunk_data,
                     bytes_sent + Len(chunk_data) >= total_size)

\* Whether send_file_data has a FileData to write at bytes_sent.
HasFileData(c, bytes_sent) == Len(c.content) = 0 \/ bytes_sent < Len(c.content)

\* transfer_single_file reads the FileResponse; a response that is none
\* or reports failure raises.  send_file_data starts at the
\* resume_offset of the response and writes its first FileData.
ClientFileResponse ==
    /\ client.pc = "await_response"
    /\ s2c # <<>>
    /\ LET r    == ClientReceive
           resp == r.msg
           good == r.ok /\ resp.type = "FILE_RESPONSE" /\ resp.success
           frame == ClientFrame(client, NextFileData(client, resp.resume_offset))
           recv == RecvEvent("client", Head(s2c), ClientDecrypts, TRUE)
           what == IF r.ok /\ resp.type = "FILE_RESPONSE"
                   THEN FileException(<<"Server error: ">> \o resp.error_message)
                   ELSE Unexpected(r, <<"Protocol error: ", "Invalid file response">>)
       IN IF ~good
          THEN /\ client' = ClientFail(client, what)
               /\ c2s' = c2s
               /\ log' = Append(log, recv)
          ELSE IF HasFileData(client, resp.resume_offset)
          THEN /\ client' = [client EXCEPT !.pc = "await_ack",
                                           !.bytes_sent = resp.resume_offset]
               /\ c2s' = Append(c2s, frame)
               /\ log' = log \o <<recv, SendEvent("client", frame, TRUE)>>
          ELSE /\ client' = [client EXCEPT !.pc = "done",
                                           !.bytes_sent = resp.resume_offset]
               /\ c2s' = c2s
               /\ log' = Append(log, recv)
    /\ s2c' = Tail(s2c)
    /\ UNCHANGED <<server, wire, server_config, server_crypto, client_config, fs, handler, last>>

\* send_file_data reads the FileAck of the chunk in flight; one that is
\* none or reports failure raises.  bytes_sent advances by the size of
\* the chunk read from the file, and the next chunk is written if bytes
\* remain.
\* The chunks of one file that are followed: a loop of send_file_data
\* that makes no progress is cut after MaxChunks of them.
MaxChunks == 3

ChunksSent ==
    Len(SelectSeq(log, LAMBDA e : e.ev = "send" /\ e.side = "client"
                                     /\ e.type = "FILE_DATA"))

ClientFileAck ==
    /\ client.pc = "await_ack"
    /\ s2c # <<>>
    /\ ChunksSent <= MaxChunks
    /\ LET r    == ClientReceive
           ack  == r.msg
           good == r.ok /\ ack.type = "FILE_ACK" /\ ack.success
           sent == client.bytes_sent + Len(ChunkAt(client, client.bytes_sent))
           more == Len(client.content) # 0 /\ sent < Len(client.content)
           frame == ClientFrame(client, NextFileData(client, sent))
           recv == RecvEvent("client", Head(s2c), ClientDecrypts, TRUE)
           what == IF r.ok /\ ack.type = "FILE_ACK"
                   THEN FileException(<<"Transfer failed: ">> \o ack.error_message)
                   ELSE Unexpected(r, FileException(<<"Transfer failed: ", "No acknowledgment">>))
       IN IF ~good
          THEN /\ client' = ClientFail(client, what)
               /\ c2s' = c2s
               /\ log' = Append(log, recv)
          ELSE IF more
          THEN /\ client' = [client EXCEPT !.bytes_sent = sent]
               /\ c2s' = Append(c2s, frame)
               /\ log' = log \o <<recv, SendEvent("client", frame, TRUE)>>
          ELSE /\ client' = [client EXCEPT !.pc = "done", !.bytes_sent = sent]
               /\ c2s' = c2s
               /\ log' = Append(log, recv)
    /\ s2c' = Tail(s2c)
    /\ UNCHANGED <<server, wire, server_config, server_crypto, client_config, fs, handler, last>>

\* Socket::receive raises "Connection closed by peer" in a client that
\* waits for a frame of a handler that has ended.
ClientPeerClosed ==
    /\ client.pc \in {"handshake", "await_response", "await_ack"}
    /\ s2c = <<>>
    /\ handler.pc = "closed"
    /\ client' = ClientFail(client, <<"Network error: ", "Connection closed by peer">>)
    /\ UNCHANGED <<server, wire, server_config, server_crypto, client_config, fs, handler,
                   c2s, s2c, log, last>>

\* ------------------------------------------------------------------------
\* The handler under any peer
\* ------------------------------------------------------------------------
\* The peer holds the server's key and sends what it likes: the messages
\* below are what receive_message returns.

PeerLevels == {"HIGH"}

PeerDests ==
    {<<"/", "srv", "/", "f", ".txt">>,
     <<"/", "srv", "/", "old", ".txt">>,
     <<"/", "srv", "/", "d", "/">>,
     <<"/", "srv", "/", "d">>,
     <<"/", "srv">>,
     <<"/", "srv", "/", "n", "/", "g">>,
     <<"/", "srv", "/", ".h">>,
     <<"/", "srv", "/", "e", "/", ".netcopy_empty_dir">>,
     <<"/", "srv", "/", "old", ".txt", "/", ".netcopy_empty_dir">>,
     <<"/", "lnk", "/", "f", ".txt">>,
     <<"/", "data", "/", "g">>,
     <<"/", "etc", "/", "passwd">>,
     <<"/", "srv", "/", "..", "/", "etc", "/", "x">>,
     <<"/", "srvx", "/", "f">>,
     <<"\\", "etc", "\\", "x">>,
     <<"srv", "/", "f">>,
     <<"etc", "/", "x">>}

\* The destinations among them that are a directory before the connection.
PeerDirs == {<<"/", "srv", "/", "d", "/">>, <<"/", "srv", "/", "d">>, <<"/", "srv">>}

\* A request names a source whose filename is new under the destination,
\* or, for a destination that is a directory, one that is a directory
\* there.
PeerRequests ==
    {FileRequest(<<"a", ".txt">>, d, r) : d \in PeerDests, r \in {0, 1}}
        \cup {FileRequest(<<"x", "/", "d">>, d, r) : d \in PeerDirs, r \in {0, 1}}

PeerData ==
    {FileData(o, b, l) : o \in 0..MaxLen, b \in SeqsUpTo(PeerBytes, MaxLen), l \in BOOLEAN}

PeerOthers == {HandshakeRequest("HIGH"), FileAck(0, TRUE, <<>>)}

\* perform_handshake on the HandshakeRequest of the peer.
HandleHandshake ==
    /\ handler.pc = "handshake"
    /\ \E level \in PeerLevels :
          \E hs \in {perform_handshake(handler, server_config, server_crypto,
                                       HandshakeRequest(level))} :
             /\ handler' = hs.handler
             /\ s2c' = IF hs.ok THEN <<hs.frame>> ELSE s2c
    /\ UNCHANGED <<server, wire, server_config, server_crypto, client_config, fs, client, c2s, log, last>>

\* A faulty loop: a FileRequest that is refused ends the connection.
HandleFileRequestOnce ==
    /\ handler.pc = "loop"
    /\ last.n < MaxMsgs
    /\ \E request \in PeerRequests :
          \E res \in {handle_file_request(server_config.allowed_paths,
                                          handler.current_file_path, fs, request)} :
          \E response \in Indeterminate(res.response) :
             /\ handler' = [handler EXCEPT !.current_file_path = res.current_file_path,
                                           !.pc = IF response.success THEN "loop"
                                                  ELSE "closed"]
             /\ fs' = res.fs
             /\ s2c' = <<ServerFrame(handler, response)>>
             /\ last' = [n |-> last.n + 1, msg |-> request, reply |-> response,
                         before |-> Outcome(last.reply)]
    /\ UNCHANGED <<server, wire, server_config, server_crypto, client_config, client, c2s, log>>

\* The loop of handle() on a FileRequest of the peer.
HandleFileRequest ==
    /\ handler.pc = "loop"
    /\ last.n < MaxMsgs
    /\ \E request \in PeerRequests :
          \E res \in {handle_file_request(server_config.allowed_paths,
                                          handler.current_file_path, fs, request)} :
          \E response \in Indeterminate(res.response) :
             /\ handler' = [handler EXCEPT !.current_file_path = res.current_file_path]
             /\ fs' = res.fs
             /\ s2c' = <<ServerFrame(handler, response)>>
             /\ last' = [n |-> last.n + 1, msg |-> request, reply |-> response,
                          before |-> Outcome(last.reply)]
    /\ UNCHANGED <<server, wire, server_config, server_crypto, client_config, client, c2s, log>>

\* The loop of handle() on a FileData of the peer.
HandleFileData ==
    /\ handler.pc = "loop"
    /\ last.n < MaxMsgs
    /\ \E data \in PeerData :
          \E res \in {handle_file_data(handler.current_file_path, fs, data)} :
          \E ack \in Indeterminate(res.ack) :
             /\ fs' = res.fs
             /\ s2c' = <<ServerFrame(handler, ack)>>
             /\ last' = [n |-> last.n + 1, msg |-> data, reply |-> ack,
                          before |-> Outcome(last.reply)]
    /\ UNCHANGED <<server, wire, server_config, server_crypto, client_config, handler, client, c2s, log>>

\* The loop of handle() on a message of any other type: a warning is
\* logged and nothing is answered.
HandleOther ==
    /\ handler.pc = "loop"
    /\ last.n < MaxMsgs
    /\ \E m \in PeerOthers :
          last' = [n |-> last.n + 1, msg |-> m, reply |-> NoMsg,
                          before |-> Outcome(last.reply)]
    /\ UNCHANGED <<server, wire, server_config, server_crypto, client_config, fs, handler, client,
                   c2s, s2c, log>>

\* The peer sends bytes that do not decrypt or are no message:
\* receive_message raises, handle() logs the error and the connection is
\* closed.
HandleUnreadable ==
    /\ handler.pc = "loop"
    /\ handler' = [handler EXCEPT !.pc = "closed"]
    /\ UNCHANGED <<server, wire, server_config, server_crypto, client_config, fs, client,
                   c2s, s2c, log, last>>

\* ------------------------------------------------------------------------
\* A peer that speaks first
\* ------------------------------------------------------------------------
\* A party that holds the key writes one frame ahead of the client's
\* first, or ahead of the server's first: whatever the side under it
\* reads first on its socket, it reads in perform_handshake.

PeerFirsts ==
    {HandshakeRequest("HIGH"),
     HandshakeResponse(TRUE, "HIGH"),
     FileRequest(<<"a", ".txt">>, <<"/", "srv", "/", "f", ".txt">>, 0),
     FileResponse(TRUE, <<>>, 0, 0),
     FileData(0, <<65>>, TRUE),
     FileAck(1, TRUE, <<>>)}

\* The message in the clear, or in the envelope of an engine.
PeerFrames(engine, m) == {Plain(m), encrypt_message(engine, "", m)}

\* The first frame the handler will read is any message.
PeerWritesFirst ==
    /\ client.pc = "init"
    /\ handler.pc = "handshake"
    /\ c2s = <<>>
    /\ \E m \in PeerFirsts :
       \E frame \in PeerFrames(create_crypto_engine("HIGH", server_config.secret_key), m) :
          c2s' = <<frame>>
    /\ UNCHANGED <<server, wire, server_config, server_crypto, client_config, fs, handler, client,
                   s2c, log, last>>

\* The first frame the client will read, once it has written its
\* HandshakeRequest, is any message.
PeerAnswersFirst ==
    /\ client.pc = "handshake"
    /\ handler.pc \in {"handshake", "closed"}
    /\ s2c = <<>>
    /\ \E m \in PeerFirsts :
       \E frame \in PeerFrames(create_crypto_engine(client.security_level,
                                                    client_config.secret_key), m) :
          s2c' = <<frame>>
    /\ UNCHANGED <<server, wire, server_config, server_crypto, client_config, fs, handler, client,
                   c2s, log, last>>

\* ------------------------------------------------------------------------
\* Specifications
\* ------------------------------------------------------------------------

\* A client and the handler of its connection.
Next ==
    \/ ClientConnect
    \/ ServerHandshake
    \/ ClientHandshakeResponse
    \/ ClientTransferFile
    \/ ServerFileRequest
    \/ ClientFileResponse
    \/ ServerFileData
    \/ ClientFileAck
    \/ ServerDisconnected
    \/ ClientPeerClosed

Spec == Init /\ [][Next]_vars

\* The handler and a peer that sends any message.
NextServer ==
    \/ HandleHandshake
    \/ HandleFileRequest
    \/ HandleFileData
    \/ HandleOther
    \/ HandleUnreadable

SpecServer == InitServer /\ [][NextServer]_vars

\* The tree of the server when the directory /srv/d holds a symbolic
\* link d to /etc/passwd, made by whoever administers the host.
LinkedFs ==
    [InitFs EXCEPT !.links = @ @@ (<< <<"srv">>, <<"d">>, <<"d">> >>
                                      :> << <<"etc">>, <<"passwd">> >>)]

InitLinked ==
    /\ server_config = [secret_key |-> "K", require_auth |-> TRUE,
                        allowed_paths |-> AllowedPaths]
    /\ server_crypto = "K"
    /\ client_config = [secret_key |-> "K", buffer_size |-> 1]
    /\ fs = LinkedFs
    /\ handler = InitHandler
    /\ client = InitClient("HIGH")
    /\ c2s = <<>>
    /\ s2c = <<>>
    /\ log = <<>>
    /\ last = [n |-> 0, msg |-> NoMsg, reply |-> NoMsg, before |-> "none"]
    /\ wire = NoWire
    /\ server = NoServer

\* The handler and a peer that sends any message, on that tree.
SpecLinked == InitLinked /\ [][NextServer]_vars

\* The handler of a server of any configuration and a peer that sends
\* any message, in the clear to a handler that holds no cipher.
SpecOpen == InitOpen /\ [][NextServer]_vars

\* A client and the handler of its connection, each of which may find
\* the frame of another party first on its socket.
NextPeers ==
    \/ Next
    \/ PeerWritesFirst
    \/ PeerAnswersFirst
    \/ ServerOther
    \/ ServerUnreadable

\* The same configurations, for a client that holds the key "K" and
\* sends a file in one chunk.
InitPeers ==
    /\ \E sc \in ServerSetups :
          /\ server_config = [secret_key |-> sc.secret_key,
                              require_auth |-> sc.require_auth,
                              allowed_paths |-> AllowedPaths]
          /\ server_crypto = sc.crypto
    /\ client_config = [secret_key |-> "K", buffer_size |-> MaxLen]
    /\ fs = InitFs
    /\ handler = InitHandler
    /\ \E level \in SecurityLevels : client = InitClient(level)
    /\ c2s = <<>>
    /\ s2c = <<>>
    /\ log = <<>>
    /\ last = [n |-> 0, msg |-> NoMsg, reply |-> NoMsg, before |-> "none"]
    /\ wire = NoWire
    /\ server = NoServer

SpecPeers == InitPeers /\ [][NextPeers]_vars

\* ------------------------------------------------------------------------
\* Message serialisation (src/src/protocol/message.cpp)
\* ------------------------------------------------------------------------

\* The variables of the connection, which the steps on bytes leave alone.
connection == <<server_config, server_crypto, client_config, fs, handler, client,
                c2s, s2c, log, last, server>>

\* No connection is under way while bytes are followed on their own.
Unconnected ==
    /\ server_config = [secret_key |-> "K", require_auth |-> TRUE,
                        allowed_paths |-> AllowedPaths]
    /\ server_crypto = "K"
    /\ client_config = [secret_key |-> "K", buffer_size |-> 1]
    /\ fs = InitFs
    /\ handler = InitHandler
    /\ client = InitClient("HIGH")
    /\ c2s = <<>>
    /\ s2c = <<>>
    /\ log = <<>>
    /\ last = [n |-> 0, msg |-> NoMsg, reply |-> NoMsg, before |-> "none"]
    /\ server = NoServer

\* A call that raised an exception.
Thrown == [ok |-> FALSE]

\* The n low bytes of value, lowest first.
RECURSIVE LittleEndian(_, _)
LittleEndian(value, n) ==
    IF n = 0 THEN <<>> ELSE <<value % 256>> \o LittleEndian(value \div 256, n - 1)

\* The numbers of the model are below 2^31.  A number of 2^30 or more
\* that is read from bytes stands as 2^30: no buffer of the model is
\* that long, so every comparison with a size comes out as in the code.
HugeLength == 2^30

\* The number whose bytes, lowest first, are given.
RECURSIVE FromLittleEndian(_)
FromLittleEndian(bytes) ==
    IF bytes = <<>> THEN 0
    ELSE IF FromLittleEndian(Tail(bytes)) >= 2^22 THEN HugeLength
    ELSE Head(bytes) + 256 * FromLittleEndian(Tail(bytes))

write_uint32(value) == LittleEndian(value, 4)

write_uint64(value) == LittleEndian(value, 8)

write_string(str) == write_uint32(Len(str)) \o str

write_bytes(data) == write_uint32(Len(data)) \o data

\* The bytes of buffer from offset (counted from 0) on, length of them.
Slice(buffer, offset, length) == SubSeq(buffer, offset + 1, offset + length)

\* read_uint32 and read_uint64: the value and the offset behind it, or
\* "Buffer underflow".
ReadNumber(buffer, offset, width) ==
    IF offset + width > Len(buffer) THEN Thrown
    ELSE [ok |-> TRUE, value |-> FromLittleEndian(Slice(buffer, offset, width)),
          offset |-> offset + width]

read_uint32(buffer, offset) == ReadNumber(buffer, offset, 4)

read_uint64(buffer, offset) == ReadNumber(buffer, offset, 8)

\* read_string and read_bytes once the length has been read.
ReadCounted(buffer, length) ==
    IF ~length.ok THEN Thrown
    ELSE IF length.offset + length.value > Len(buffer) THEN Thrown
    ELSE [ok |-> TRUE, value |-> Slice(buffer, length.offset, length.value),
          offset |-> length.offset + length.value]

read_string(buffer, offset) == ReadCounted(buffer, read_uint32(buffer, offset))

read_bytes(buffer, offset) == ReadCounted(buffer, read_uint32(buffer, offset))

\* enum class MessageType
MessageType ==
    [HANDSHAKE_REQUEST |-> 1, HANDSHAKE_RESPONSE |-> 2, FILE_REQUEST |-> 3,
     FILE_RESPONSE |-> 4, FILE_DATA |-> 5, FILE_ACK |-> 6, RESUME_REQUEST |-> 7,
     RESUME_RESPONSE |-> 8, ERROR_MESSAGE |-> 9]

\* The kinds for which Message::deserialize makes an object.
Decodable ==
    {"HANDSHAKE_REQUEST", "HANDSHAKE_RESPONSE", "FILE_REQUEST", "FILE_RESPONSE",
     "FILE_DATA", "FILE_ACK", "ERROR_MESSAGE"}

\* bool as a byte
Flag(b) == IF b THEN 1 ELSE 0

\* The serialize_payload of each class.  The messages here carry every
\* member of their class; a security level is the number of its
\* enumerator.
serialize_payload(m) ==
    CASE m.type = "HANDSHAKE_REQUEST" ->
             write_string(m.client_version) \o write_bytes(m.client_nonce)
                 \o <<m.security_level>>
      [] m.type = "HANDSHAKE_RESPONSE" ->
             write_string(m.server_version) \o write_bytes(m.server_nonce)
                 \o <<Flag(m.authentication_required), m.accepted_security_level>>
      [] m.type = "FILE_REQUEST" ->
             write_string(m.source_path) \o write_string(m.destination_path)
                 \o <<Flag(m.recursive)>> \o write_uint64(m.resume_offset)
      [] m.type = "FILE_RESPONSE" ->
             <<Flag(m.success)>> \o write_string(m.error_message)
                 \o write_uint64(m.file_size) \o write_uint64(m.resume_offset)
      [] m.type = "FILE_DATA" ->
             write_uint64(m.offset) \o write_bytes(m.data) \o <<Flag(m.is_last_chunk)>>
      [] m.type = "FILE_ACK" ->
             write_uint64(m.bytes_received) \o <<Flag(m.success)>>
                 \o write_string(m.error_message)
      [] m.type = "ERROR_MESSAGE" ->
             write_uint32(m.error_code) \o write_string(m.error_description)

\* MessageHeader::serialize
MessageHeader_serialize(header) ==
    write_uint32(header.type) \o write_uint32(header.payload_length)
        \o write_uint32(header.sequence_number) \o write_uint32(header.reserved)

\* Message::serialize: the header, with the length of the payload, and
\* the payload.  The constructors leave sequence_number and reserved 0.
Message_serialize(m) ==
    MessageHeader_serialize([type |-> MessageType[m.type],
                             payload_length |-> Len(serialize_payload(m)),
                             sequence_number |-> 0, reserved |-> 0])
        \o serialize_payload(m)

\* MessageHeader::deserialize of at least SIZE bytes.
MessageHeader_deserialize(data) ==
    [type            |-> read_uint32(data, 0).value,
     payload_length  |-> read_uint32(data, 4).value,
     sequence_number |-> read_uint32(data, 8).value,
     reserved        |-> read_uint32(data, 12).value]

\* HandshakeRequest::deserialize_payload; without a byte for it the
\* security level stays that of the constructor, HIGH.
HandshakeRequest_payload(data, version, nonce) ==
    IF ~version.ok \/ ~nonce.ok THEN Thrown
    ELSE [ok |-> TRUE,
          msg |-> [type |-> "HANDSHAKE_REQUEST", client_version |-> version.value,
                   client_nonce |-> nonce.value,
                   security_level |-> IF nonce.offset < Len(data)
                                      THEN data[nonce.offset + 1] ELSE 0]]

\* HandshakeResponse::deserialize_payload
HandshakeResponse_payload(data, version, nonce) ==
    IF ~version.ok \/ ~nonce.ok THEN Thrown
    ELSE IF nonce.offset >= Len(data) THEN Thrown
    ELSE [ok |-> TRUE,
          msg |-> [type |-> "HANDSHAKE_RESPONSE", server_version |-> version.value,
                   server_nonce |-> nonce.value,
                   authentication_required |-> data[nonce.offset + 1] # 0,
                   accepted_security_level |-> IF nonce.offset + 1 < Len(data)
                                               THEN data[nonce.offset + 2] ELSE 0]]

\* FileRequest::deserialize_payload
FileRequest_payload(data, source, destination) ==
    IF ~source.ok \/ ~destination.ok THEN Thrown
    ELSE IF destination.offset >= Len(data) THEN Thrown
    ELSE IF ~read_uint64(data, destination.offset + 1).ok THEN Thrown
    ELSE [ok |-> TRUE,
          msg |-> [type |-> "FILE_REQUEST", source_path |-> source.value,
                   destination_path |-> destination.value,
                   recursive |-> data[destination.offset + 1] # 0,
                   resume_offset |-> read_uint64(data, destination.offset + 1).value]]

\* FileResponse::deserialize_payload
FileResponse_payload(data, message) ==
    IF ~message.ok THEN Thrown
    ELSE IF ~read_uint64(data, message.offset + 8).ok THEN Thrown
    ELSE [ok |-> TRUE,
          msg |-> [type |-> "FILE_RESPONSE", success |-> data[1] # 0,
                   error_message |-> message.value,
                   file_size |-> read_uint64(data, message.offset).value,
                   resume_offset |-> read_uint64(data, message.offset + 8).value]]

\* FileData::deserialize_payload, which assigns offset, data and
\* is_last_chunk; compressed keeps the value it had.
FileData_payload(data_buffer, offset, data, compressed) ==
    IF ~offset.ok \/ ~data.ok THEN Thrown
    ELSE IF data.offset >= Len(data_buffer) THEN Thrown
    ELSE [ok |-> TRUE,
          msg |-> [type |-> "FILE_DATA", offset |-> offset.value, data |-> data.value,
                   is_last_chunk |-> data_buffer[data.offset + 1] # 0,
                   compressed |-> compressed]]

\* FileAck::deserialize_payload
FileAck_payload(data, received, message) ==
    IF ~received.ok \/ received.offset >= Len(data) \/ ~message.ok THEN Thrown
    ELSE [ok |-> TRUE,
          msg |-> [type |-> "FILE_ACK", bytes_received |-> received.value,
                   success |-> data[received.offset + 1] # 0,
                   error_message |-> message.value]]

\* ErrorMessage::deserialize_payload
ErrorMessage_payload(code, description) ==
    IF ~code.ok \/ ~description.ok THEN Thrown
    ELSE [ok |-> TRUE,
          msg |-> [type |-> "ERROR_MESSAGE", error_code |-> code.value,
                   error_description |-> description.value]]

\* The offset behind a value that was read, 0 if the read raised.
Behind(read) == IF read.ok THEN read.offset ELSE 0

\* The deserialize_payload of the class made for a type.  compressed is
\* what the member of a FileData holds when the object has been
\* constructed: it has no initialiser.
deserialize_payload(type, data, compressed) ==
    CASE type = MessageType.HANDSHAKE_REQUEST ->
             HandshakeRequest_payload(data, read_string(data, 0),
                                      read_bytes(data, Behind(read_string(data, 0))))
      [] type = MessageType.HANDSHAKE_RESPONSE ->
             HandshakeResponse_payload(data, read_string(data, 0),
                                       read_bytes(data, Behind(read_string(data, 0))))
      [] type = MessageType.FILE_REQUEST ->
             FileRequest_payload(data, read_string(data, 0),
                                 read_string(data, Behind(read_string(data, 0))))
      [] type = MessageType.FILE_RESPONSE ->
             IF Len(data) = 0 THEN Thrown
             ELSE FileResponse_payload(data, read_string(data, 1))
      [] type = MessageType.FILE_DATA ->
             FileData_payload(data, read_uint64(data, 0),
                              read_bytes(data, Behind(read_uint64(data, 0))), compressed)
      [] type = MessageType.FILE_ACK ->
             FileAck_payload(data, read_uint64(data, 0),
                             read_string(data, Behind(read_uint64(data, 0)) + 1))
      [] type = MessageType.ERROR_MESSAGE ->
             ErrorMessage_payload(read_uint32(data, 0),
                                  read_string(data, Behind(read_uint32(data, 0))))

\* MessageHeader::SIZE
MessageHeader_SIZE == 16

\* Message::deserialize once the header has been read.
Message_dispatch(data, header, compressed) ==
    IF Len(data) < MessageHeader_SIZE + header.payload_length THEN Thrown
    ELSE IF header.type \notin {MessageType[k] : k \in Decodable} THEN Thrown
    ELSE deserialize_payload(header.type,
                             Slice(data, MessageHeader_SIZE, header.payload_length),
                             compressed)

\* Message::deserialize: the message, or a ProtocolException.
Message_deserialize(data, compressed) ==
    IF Len(data) < MessageHeader_SIZE THEN Thrown
    ELSE Message_dispatch(data, MessageHeader_deserialize(data), compressed)

\* The members of the messages whose bytes are followed.
CodecStrings == {<<>>, <<47, 97>>}

CodecNumbers == {0, 1, 258}

CodecLevels == 0..3

CodecMessages ==
    [type : {"HANDSHAKE_REQUEST"}, client_version : CodecStrings,
     client_nonce : CodecStrings, security_level : CodecLevels]
    \cup [type : {"HANDSHAKE_RESPONSE"}, server_version : CodecStrings,
          server_nonce : CodecStrings, authentication_required : BOOLEAN,
          accepted_security_level : CodecLevels]
    \cup [type : {"FILE_REQUEST"}, source_path : CodecStrings,
          destination_path : CodecStrings, recursive : BOOLEAN,
          resume_offset : CodecNumbers]
    \cup [type : {"FILE_RESPONSE"}, success : BOOLEAN, error_message : CodecStrings,
          file_size : CodecNumbers, resume_offset : CodecNumbers]
    \cup [type : {"FILE_DATA"}, offset : CodecNumbers, data : CodecStrings,
          is_last_chunk : BOOLEAN, compressed : BOOLEAN]
    \cup [type : {"FILE_ACK"}, bytes_received : CodecNumbers, success : BOOLEAN,
          error_message : CodecStrings]
    \cup [type : {"ERROR_MESSAGE"}, error_code : CodecNumbers,
          error_description : CodecStrings]

\* A message of any kind with any members is about to be sent.
InitCodec ==
    /\ Unconnected
    /\ \E m \in CodecMessages : wire = [pc |-> "message", message |-> m]

\* send_message: Message::serialize.
Serialize ==
    /\ wire.pc = "message"
    /\ wire' = [pc |-> "bytes", message |-> wire.message,
                data |-> Message_serialize(wire.message)]
    /\ UNCHANGED connection

\* receive_message: Message::deserialize, into a new object whose
\* members without an initialiser hold anything.
Deserialize ==
    /\ wire.pc = "bytes"
    /\ \E compressed \in BOOLEAN :
          wire' = [pc |-> "decoded", message |-> wire.message, data |-> wire.data,
                   decoded |-> Message_deserialize(wire.data, compressed)]
    /\ UNCHANGED connection

NextCodec == Serialize \/ Deserialize

\* A message through Message::serialize and Message::deserialize.
SpecCodec == InitCodec /\ [][NextCodec]_vars

\* The frame of m with only the first n bytes of its payload; declared
\* says whether the header names the length that is left or the length
\* of the whole payload.
TruncatedFrame(m, n, declared) ==
    MessageHeader_serialize([type |-> MessageType[m.type],
                             payload_length |-> IF declared THEN n
                                                ELSE Len(serialize_payload(m)),
                             sequence_number |-> 0, reserved |-> 0])
        \o SubSeq(serialize_payload(m), 1, n)

\* The peer, or the network, cuts the payload of the frame short.
Truncate ==
    /\ wire.pc = "bytes"
    /\ wire.data = Message_serialize(wire.message)
    /\ \E n \in 0..(Len(serialize_payload(wire.message)) - 1), declared \in BOOLEAN :
          wire' = [wire EXCEPT !.data = TruncatedFrame(wire.message, n, declared)]
    /\ UNCHANGED connection

NextTruncated == Serialize \/ Truncate \/ Deserialize

\* A message through Message::serialize, a cut of its payload and
\* Message::deserialize.
SpecTruncated == InitCodec /\ [][NextTruncated]_vars

\* ------------------------------------------------------------------------
\* The security engines on bytes (src/src/crypto)
\* ------------------------------------------------------------------------

\* KEY_SIZE of every cipher
KEY_SIZE == 32

\* ChaCha20Poly1305::NONCE_SIZE and Aes256GcmGpu::IV_SIZE
NONCE_SIZE == 12

\* ChaCha20Poly1305::TAG_SIZE and Aes256GcmGpu::TAG_SIZE
TAG_SIZE == 16

\* AesCtr::IV_SIZE
AES_IV_SIZE == 16

\* a ^ b on the n low bits
RECURSIVE XorBits(_, _, _)
XorBits(a, b, n) ==
    IF n = 0 THEN 0 ELSE ((a + b) % 2) + 2 * XorBits(a \div 2, b \div 2, n - 1)

\* a ^ b on bytes
Xor(a, b) == XorBits(a, b, 8)

\* The 32 bytes that the 64 digits of a key stand for.
KeyBytes(key) == [i \in 1..KEY_SIZE |-> ((IF key = "K" THEN 75 ELSE 50) + 3 * i) % 256]

\* The bytes of a sequence, each weighted by its place from w on.
RECURSIVE Weighted(_, _)
Weighted(bytes, w) ==
    IF bytes = <<>> THEN 0 ELSE w * Head(bytes) + Weighted(Tail(bytes), w + 1)

\* Byte i, from 0, of the keystream of a block cipher for a key and the
\* block it starts from.  The rounds of ChaCha20 and of AES are not
\* followed: the keystream is some function of the key, the block and
\* the place.
Keystream(key, block, i) ==
    (KeyBytes(key)[(i % KEY_SIZE) + 1] + Weighted(block, 1) + 31 * i + 1) % 256

\* ChaCha20::encrypt: data XOR the keystream.
ChaCha20_encrypt(key, nonce, data) ==
    [i \in 1..Len(data) |-> Xor(data[i], Keystream(key, nonce, i - 1))]

\* Poly1305 over a ciphertext, with the key that ChaCha20 derives from
\* key and nonce.  The arithmetic is not followed: the tag is a function
\* that no change of one byte of the nonce or of the ciphertext leaves
\* the same.
Poly1305_tag(key, nonce, ciphertext) ==
    <<((Weighted(nonce, 1) + Weighted(ciphertext, NONCE_SIZE + 1) + Len(ciphertext)) % 257) % 256,
      ((Weighted(nonce, 1) + Weighted(ciphertext, NONCE_SIZE + 1) + Len(ciphertext)) % 257) \div 256>>
        \o [i \in 1..(TAG_SIZE - 2) |-> Keystream(key, nonce, i)]

\* ChaCha20Poly1305::encrypt: the ciphertext and its tag.
ChaCha20Poly1305_encrypt(key, plaintext, nonce) ==
    ChaCha20_encrypt(key, nonce, plaintext)
        \o Poly1305_tag(key, nonce, ChaCha20_encrypt(key, nonce, plaintext))

\* ChaCha20Poly1305::decrypt of a ciphertext that ends with its tag.
ChaCha20Poly1305_decrypt(key, ciphertext, nonce, tag) ==
    IF Len(ciphertext) < TAG_SIZE THEN Thrown
    ELSE IF Poly1305_tag(key, nonce, Slice(ciphertext, 0, Len(ciphertext) - TAG_SIZE)) # tag
    THEN Thrown
    ELSE [ok |-> TRUE,
          data |-> ChaCha20_encrypt(key, nonce,
                                    Slice(ciphertext, 0, Len(ciphertext) - TAG_SIZE))]

\* HighSecurityEngine::encrypt with the nonce that generate_nonce drew.
HighSecurityEngine_encrypt(key, nonce, data) ==
    nonce \o ChaCha20Poly1305_encrypt(key, data, nonce)

\* HighSecurityEngine::decrypt
HighSecurityEngine_decrypt(key, data) ==
    IF Len(data) < NONCE_SIZE + TAG_SIZE THEN Thrown
    ELSE ChaCha20Poly1305_decrypt(key, Slice(data, NONCE_SIZE, Len(data) - NONCE_SIZE),
                                  Slice(data, 0, NONCE_SIZE),
                                  Slice(data, Len(data) - TAG_SIZE, TAG_SIZE))

\* XorCipher::process after reset, of data that fits one chunk.
XorCipher_process(key, data) ==
    [i \in 1..Len(data) |-> Xor(data[i], KeyBytes(key)[((i - 1) % KEY_SIZE) + 1])]

\* AesCtr::process: the counter takes the place of the last 8 bytes of
\* the IV.
AesCtr_process(key, data, iv) ==
    [i \in 1..Len(data) |-> Xor(data[i], Keystream(key, SubSeq(iv, 1, 8), i - 1))]

\* AesSecurityEngine::encrypt with the IV that generate_iv drew.
AesSecurityEngine_encrypt(key, iv, data) == iv \o AesCtr_process(key, data, iv)

\* AesSecurityEngine::decrypt
AesSecurityEngine_decrypt(key, data) ==
    IF Len(data) < AES_IV_SIZE THEN Thrown
    ELSE [ok |-> TRUE,
          data |-> AesCtr_process(key, Slice(data, AES_IV_SIZE, Len(data) - AES_IV_SIZE),
                                  Slice(data, 0, AES_IV_SIZE))]

\* XOR of the bytes of ciphertext at j, j + TAG_SIZE, ... (from 0).
RECURSIVE FoldFrom(_, _)
FoldFrom(ciphertext, j) ==
    IF j >= Len(ciphertext) THEN 0
    ELSE Xor(ciphertext[j + 1], FoldFrom(ciphertext, j + TAG_SIZE))

\* The "simple authentication tag" of encrypt_cpu and decrypt_cpu.
Aes256GcmGpu_tag(key, iv, ciphertext) ==
    [i \in 1..TAG_SIZE |->
        Xor(Xor(KeyBytes(key)[i], iv[((i - 1) % NONCE_SIZE) + 1]),
            FoldFrom(ciphertext, i - 1))]

\* Aes256GcmGpu::Impl::encrypt_cpu
encrypt_cpu(key, plaintext, iv) ==
    AesCtr_process(key, plaintext, iv)
        \o Aes256GcmGpu_tag(key, iv, AesCtr_process(key, plaintext, iv))

\* Aes256GcmGpu::Impl::decrypt_cpu, which takes the tag from the end of
\* ciphertext and ignores its parameter tag.
decrypt_cpu(key, ciphertext, iv) ==
    IF Len(ciphertext) < TAG_SIZE THEN Thrown
    ELSE IF Slice(ciphertext, Len(ciphertext) - TAG_SIZE, TAG_SIZE)
                # Aes256GcmGpu_tag(key, iv, Slice(ciphertext, 0, Len(ciphertext) - TAG_SIZE))
    THEN Thrown
    ELSE [ok |-> TRUE,
          data |-> AesCtr_process(key, Slice(ciphertext, 0, Len(ciphertext) - TAG_SIZE), iv)]

\* GpuSecurityEngine::encrypt with the IV that generate_iv drew.
GpuSecurityEngine_encrypt(key, iv, data) == iv \o encrypt_cpu(key, data, iv)

\* GpuSecurityEngine::decrypt, which passes the ciphertext without its
\* tag.
GpuSecurityEngine_decrypt(key, data) ==
    IF Len(data) < NONCE_SIZE + TAG_SIZE THEN Thrown
    ELSE decrypt_cpu(key, Slice(data, NONCE_SIZE, Len(data) - NONCE_SIZE - TAG_SIZE),
                     Slice(data, 0, NONCE_SIZE))

\* CryptoEngine::encrypt of the engine of a suite.
CryptoEngine_encrypt(suite, key, iv, data) ==
    CASE suite = "HIGH" -> HighSecurityEngine_encrypt(key, iv, data)
      [] suite = "FAST" -> XorCipher_process(key, data)
      [] suite = "AES" -> AesSecurityEngine_encrypt(key, iv, data)
      [] suite = "AES_256_GCM" -> GpuSecurityEngine_encrypt(key, iv, data)

\* CryptoEngine::decrypt of the engine of a suite.
CryptoEngine_decrypt(suite, key, data) ==
    CASE suite = "HIGH" -> HighSecurityEngine_decrypt(key, data)
      [] suite = "FAST" -> [ok |-> TRUE, data |-> XorCipher_process(key, data)]
      [] suite = "AES" -> AesSecurityEngine_decrypt(key, data)
      [] suite = "AES_256_GCM" -> GpuSecurityEngine_decrypt(key, data)

\* The nonces and IVs an engine may draw for a suite: two of each size.
Ivs(suite) ==
    {[i \in 1..(CASE suite = "FAST" -> 0 [] suite = "AES" -> AES_IV_SIZE
                  [] OTHER -> NONCE_SIZE) |-> b * i] : b \in {0, 1}}

\* A plaintext of TAG_SIZE bytes whose AES-CTR ciphertext under key and
\* iv is the tag of the empty ciphertext.
SelfTagged(key, iv) ==
    AesCtr_process(key, Aes256GcmGpu_tag(key, iv, <<>>), iv)

\* The plaintexts that are encrypted.
Plaintexts ==
    {<<>>, <<65>>, <<65, 66>>} \cup {SelfTagged("K", iv) : iv \in Ivs("AES_256_GCM")}

\* An engine of any suite is about to encrypt a plaintext.
InitCrypto ==
    /\ Unconnected
    /\ \E suite \in SecurityLevels, x \in Plaintexts :
          wire = [pc |-> "plaintext", suite |-> suite, x |-> x]

\* CryptoEngine::encrypt by an engine made from the key "K".
Encrypt ==
    /\ wire.pc = "plaintext"
    /\ \E iv \in Ivs(wire.suite) :
          wire' = [pc |-> "envelope", suite |-> wire.suite, x |-> wire.x,
                   data |-> CryptoEngine_encrypt(wire.suite, "K", iv, wire.x),
                   tampered |-> FALSE]
    /\ UNCHANGED connection

\* One byte of the envelope is replaced with another value on its way.
Tamper ==
    /\ wire.pc = "envelope"
    /\ ~wire.tampered
    /\ \E p \in 1..Len(wire.data) :
       \E v \in {(wire.data[p] + 1) % 256, Xor(wire.data[p], 128)} :
          wire' = [wire EXCEPT !.data = [wire.data EXCEPT ![p] = v], !.tampered = TRUE]
    /\ UNCHANGED connection

\* CryptoEngine::decrypt by an engine made from the same key.
Decrypt ==
    /\ wire.pc = "envelope"
    /\ wire' = [pc |-> "decrypted", suite |-> wire.suite, x |-> wire.x,
                data |-> wire.data, tampered |-> wire.tampered,
                result |-> CryptoEngine_decrypt(wire.suite, "K", wire.data)]
    /\ UNCHANGED connection

NextCrypto == Encrypt \/ Tamper \/ Decrypt

\* A plaintext through the encrypt and the decrypt of an engine.
SpecCrypto == InitCrypto /\ [][NextCrypto]_vars

\* ------------------------------------------------------------------------
\* receive_message on a stream of bytes (src/src/server/server.cpp)
\* ------------------------------------------------------------------------

\* The frames a peer sends to a handler that has completed the handshake:
\* a FileRequest, a FileData, a HandshakeRequest, and a header of the
\* kind RESUME_REQUEST, for which Message::deserialize makes no object.
WireMessages ==
    {[type |-> "FILE_REQUEST", source_path |-> <<97>>, destination_path |-> <<47, 97>>,
      recursive |-> FALSE, resume_offset |-> 0],
     [type |-> "FILE_DATA", offset |-> 0, data |-> <<65>>, is_last_chunk |-> TRUE,
      compressed |-> FALSE],
     [type |-> "HANDSHAKE_REQUEST", client_version |-> <<>>, client_nonce |-> <<>>,
      security_level |-> 0]}

UnknownKind ==
    MessageHeader_serialize([type |-> MessageType.RESUME_REQUEST, payload_length |-> 0,
                             sequence_number |-> 0, reserved |-> 0])

\* The bytes a peer sends after announcing a frame of HugeLength bytes.
Truncated == <<1, 2, 3>>

\* What send_message of the peer hands to the socket after the length:
\* the bytes of the message, encrypted when the connection has a cipher.
Sealed(suite, plain) ==
    IF suite = "none" THEN plain
    ELSE CryptoEngine_encrypt(suite, "K", [i \in 1..NONCE_SIZE |-> i], plain)

\* The bodies of the frames of a peer, the last of which it announces
\* with the length HugeLength and never completes.
PeerBodies(suite) ==
    {Sealed(suite, Message_serialize(m)) : m \in WireMessages}
        \cup {Sealed(suite, UnknownKind), Truncated}

\* send_message: the length of the body, as the four bytes of a
\* uint32_t, and the body.
Framed(body) ==
    write_uint32(IF body = Truncated THEN HugeLength ELSE Len(body)) \o body

\* One frame after the other.
RECURSIVE Stream(_)
Stream(bodies) ==
    IF bodies = <<>> THEN <<>> ELSE Framed(Head(bodies)) \o Stream(Tail(bodies))

\* The handler is in its loop, with the cipher of the connection if it
\* has one, and the peer has sent one or two frames.
InitWire ==
    /\ Unconnected
    /\ \E suite \in {"none", "HIGH"} :
       \E sent \in UNION {[1..k -> PeerBodies(suite)] : k \in 1..MaxFrames} :
          wire = [pc |-> "prefix", suite |-> suite, sent |-> sent,
                  stream |-> Stream(sent), length |-> 0, allocated |-> 0,
                  data |-> <<>>, received |-> <<>>, kind |-> 0,
                  answered |-> 0, written |-> 0]

\* decrypt_message of the handler.
Opened(suite, data) ==
    IF suite = "none" THEN [ok |-> TRUE, data |-> data]
    ELSE CryptoEngine_decrypt(suite, "K", data)

\* A faulty handler: bytes that are no message are skipped.
ParsedSkipping(plain, compressed) ==
    IF plain.ok /\ Message_deserialize(plain.data, compressed).ok
    THEN Message_deserialize(plain.data, compressed)
    ELSE [ok |-> TRUE, msg |-> NoMsg]

\* Message::deserialize of what decrypt_message returned.
Parsed(plain, compressed) ==
    IF plain.ok THEN Message_deserialize(plain.data, compressed) ELSE Thrown

\* The kind in the header of the bytes that reach Message::deserialize,
\* 0 when there is no header.
KindOf(plain) ==
    IF plain.ok /\ Len(plain.data) >= MessageHeader_SIZE
    THEN read_uint32(plain.data, 0).value ELSE 0

\* The rest of the iteration of handle() once the body is complete:
\* decrypt_message and Message::deserialize, whose exceptions end the
\* connection, then the switch.  handle_file_request and
\* handle_file_data answer every message; handle_file_data may write.
Dispatched(w, data, plain, decoded) ==
    [w EXCEPT !.pc = IF decoded.ok THEN "prefix" ELSE "closed",
              !.data = <<>>,
              !.received = Append(@, data),
              !.kind = KindOf(plain),
              !.answered = IF decoded.ok /\ decoded.msg.type \in {"FILE_REQUEST", "FILE_DATA"}
                           THEN @ + 1 ELSE @,
              !.written = IF decoded.ok /\ decoded.msg.type = "FILE_DATA"
                          THEN @ + 1 ELSE @]

\* receive_message once length is known: the buffer is allocated, and
\* with nothing left to receive the message is decoded at once.
Allocated(w, length, compressed) ==
    IF length = 0
    THEN Dispatched([w EXCEPT !.length = 0, !.allocated = Max(@, 0)], <<>>,
                    Opened(w.suite, <<>>), Parsed(Opened(w.suite, <<>>), compressed))
    ELSE [w EXCEPT !.pc = "body", !.length = length, !.allocated = Max(@, length),
                   !.data = <<>>]

\* receive_message, the length: one call of Socket::receive for
\* sizeof(length) bytes, which returns the n bytes that have arrived.
\* The bytes of length that it did not write hold anything.
ReceiveLength ==
    /\ wire.pc = "prefix"
    /\ wire.stream # <<>>
    /\ \E n \in 1..Min(4, Len(wire.stream)) :
       \E rest \in [1..(4 - n) -> Uninit] :
       \E compressed \in BOOLEAN :
          wire' = Allocated([wire EXCEPT !.stream = SubSeq(@, n + 1, Len(@))],
                            FromLittleEndian(SubSeq(wire.stream, 1, n) \o rest),
                            compressed)
    /\ UNCHANGED connection

\* receive_message, the loop: a call of Socket::receive for what is
\* missing, which returns the n bytes that have arrived, one byte or all
\* there is, and, when the buffer is full, the rest of the iteration.
ReceiveData ==
    /\ wire.pc = "body"
    /\ wire.stream # <<>>
    /\ \E n \in {1, Min(wire.length - Len(wire.data), Len(wire.stream))} :
       \E compressed \in BOOLEAN :
       \E data \in {wire.data \o SubSeq(wire.stream, 1, n)} :
          wire' = IF Len(data) < wire.length
                  THEN [wire EXCEPT !.data = data, !.stream = SubSeq(@, n + 1, Len(@))]
                  ELSE Dispatched([wire EXCEPT !.stream = SubSeq(@, n + 1, Len(@))],
                                  data, Opened(wire.suite, data),
                                  Parsed(Opened(wire.suite, data), compressed))
    /\ UNCHANGED connection

\* Socket::receive when the peer has closed and nothing is left:
\* "Connection closed by peer", which ends handle().
ReceiveNothing ==
    /\ wire.pc \in {"prefix", "body"}
    /\ wire.stream = <<>>
    /\ wire' = [wire EXCEPT !.pc = "closed"]
    /\ UNCHANGED connection

NextWire == ReceiveLength \/ ReceiveData \/ ReceiveNothing

\* The loop of handle() on the bytes of a peer, delivered in any pieces.
SpecWire == InitWire /\ [][NextWire]_vars

\* ------------------------------------------------------------------------
\* Properties
\* ------------------------------------------------------------------------

\* This step is the handler dispatching a message of the given type.
Handles(type) == last'.n = last.n + 1 /\ last'.msg.type = type

\* The content of the regular file a path names on f, empty if there is
\* none.
OnDisk(f, path) ==
    IF Phys(f, path) \in DOMAIN f.files THEN f.files[Phys(f, path)] ELSE <<>>

\* C1: after the client has completed a fresh transfer of a file of
\* N > 0 bytes (request with resume_offset 0, response and every
\* acknowledgement successful), the destination file on the server is
\* byte for byte the source, whatever the name of the source.
C1_FreshTransferIntact ==
    (client.pc = "done" /\ ~client.resume /\ client.content # <<>>)
        => /\ Phys(fs, handler.current_file_path) \in DOMAIN fs.files
           /\ OnDisk(fs, handler.current_file_path) = client.content

\* The frames of file data and their acknowledgements in the log, read
\* or written.
DataEvents == SelectSeq(log, LAMBDA e : e.type \in {"FILE_DATA", "FILE_ACK"})

\* One round: the client writes a FileData, the server reads it and
\* writes a FileAck, the client reads it.
Round ==
    << [ev |-> "send", side |-> "client", type |-> "FILE_DATA"],
       [ev |-> "recv", side |-> "server", type |-> "FILE_DATA"],
       [ev |-> "send", side |-> "server", type |-> "FILE_ACK"],
       [ev |-> "recv", side |-> "client", type |-> "FILE_ACK"] >>

Count(ev, side, type) ==
    Cardinality({i \in DOMAIN log :
                    log[i].ev = ev /\ log[i].side = side /\ log[i].type = type})

\* C2: on a connection the client writes a FileData only when every
\* earlier one has been acknowledged, and the server writes exactly one
\* FileAck for each FileData it reads: the frames strictly alternate.
C2_DataAckAlternate ==
    /\ \A i \in DOMAIN DataEvents :
          /\ DataEvents[i].ev = Round[((i - 1) % 4) + 1].ev
          /\ DataEvents[i].side = Round[((i - 1) % 4) + 1].side
          /\ DataEvents[i].type = Round[((i - 1) % 4) + 1].type
    /\ Count("send", "server", "FILE_ACK") = Count("recv", "server", "FILE_DATA")
    /\ Count("send", "client", "FILE_DATA") - Count("recv", "client", "FILE_ACK") \in {0, 1}

\* Two FileData have been acknowledged.
C2_Witness == Count("recv", "client", "FILE_ACK") >= 2

\* A destination lies at or beneath an allowed base when, both made
\* absolute against the working directory, normalised and with symbolic
\* links followed, the base is a prefix of it.
Beneath(f, allowed_paths, destination) ==
    \E i \in DOMAIN allowed_paths :
        IsPrefix(Phys(f, allowed_paths[i]), Phys(f, convert_to_native_path(destination)))

\* The same by the text of the paths alone.
LexicallyBeneath(allowed_paths, destination) ==
    \E i \in DOMAIN allowed_paths :
        /\ ParsePath(convert_to_native_path(destination)).abs
        /\ IsPrefix(LexicallyNormal(ParsePath(allowed_paths[i])).comps,
                    LexicallyNormal(ParsePath(convert_to_native_path(destination))).comps)

\* C3, as the code has it: a FileRequest whose destination, made absolute
\* and with symbolic links followed, is not at or beneath any allowed
\* base is answered with success = false and the error message
\* "File error: Access denied to path: <destination>", and no file and no
\* directory is created.
C3_DeniedOutsideBases ==
    [][(Handles("FILE_REQUEST")
            /\ ~Beneath(fs, server_config.allowed_paths, last'.msg.destination_path))
        => /\ ~last'.reply.success
           /\ last'.reply.error_message
                  = <<"File error: ", "Access denied to path: ">> \o last'.msg.destination_path
           /\ fs' = fs]_vars

\* A request for a destination outside the bases has been denied.
C3_Witness ==
    /\ last.msg.type = "FILE_REQUEST"
    /\ ~Beneath(fs, server_config.allowed_paths, last.msg.destination_path)
    /\ ~last.reply.success
    /\ last.reply.error_message
           = <<"File error: ", "Access denied to path: ">> \o last.msg.destination_path

\* C3, as stated: a FileRequest whose destination is not lexically at or
\* beneath any allowed base is answered with success = false and the
\* error message "Access denied to path: <destination>", and no file and
\* no directory is created.
C3_AsStated ==
    [][(Handles("FILE_REQUEST")
            /\ ~LexicallyBeneath(server_config.allowed_paths, last'.msg.destination_path))
        => /\ ~last'.reply.success
           /\ last'.reply.error_message
                  = <<"Access denied to path: ">> \o last'.msg.destination_path
           /\ fs' = fs]_vars

\* C4: a FileData handled while no FileRequest has established
\* current_file_path writes nothing: no file and no directory is created
\* or changed.
C4_NoPathNoWrite ==
    [][(Handles("FILE_DATA") /\ handler.current_file_path = <<>>) => fs' = fs]_vars

\* A FileData that carries bytes has been handled with no
\* current_file_path.
C4_Witness ==
    /\ last.msg.type = "FILE_DATA"
    /\ last.msg.data # <<>>
    /\ handler.current_file_path = <<>>

\* C5: a FileData that follows a FileRequest answered with
\* success = false is written nowhere, neither to the rejected
\* destination nor to that of an earlier FileRequest.
C5_RejectedRequestNoWrite ==
    [][(Handles("FILE_DATA") /\ last.msg.type = "FILE_REQUEST" /\ ~last.reply.success)
        => fs' = fs]_vars

\* The frames of a file transfer.
TransferTypes == {"FILE_REQUEST", "FILE_RESPONSE", "FILE_DATA", "FILE_ACK"}

\* C6: every frame of a file transfer that a side writes, which it
\* does once its handshake is complete, is an encrypted envelope,
\* whatever the configuration.
C6_TransferFramesEncrypted ==
    /\ \A i \in DOMAIN c2s : c2s[i].msg.type \in TransferTypes => c2s[i].enc
    /\ \A i \in DOMAIN s2c : s2c[i].msg.type \in TransferTypes => s2c[i].enc

\* The cipher a side holds: its engine, else the ChaCha20-Poly1305 of its
\* crypto_ when that holds a key that can be compared, else none.
CipherOf(engine, crypto) ==
    IF engine # NoEngine THEN engine
    ELSE IF crypto \in ValidKeys THEN [suite |-> "HIGH", key |-> crypto]
    ELSE NoEngine

\* C7: once both sides have completed the handshake they hold a cipher
\* of the same suite and key, the suite being the one the
\* HandshakeRequest named; and every frame of a file transfer that a
\* side has read was an envelope, which it decrypted.
C7_SameCipher ==
    /\ (handler.handshake_completed /\ client.connected)
           => /\ CipherOf(handler.crypto_engine, server_crypto) # NoEngine
              /\ CipherOf(handler.crypto_engine, server_crypto)
                     = CipherOf(client.crypto_engine, client.crypto)
              /\ CipherOf(handler.crypto_engine, server_crypto).suite
                     = client.security_level
    /\ \A i \in DOMAIN log :
           (log[i].ev = "recv" /\ log[i].type \in TransferTypes)
               => (log[i].enc /\ log[i].dec)

\* Both handshakes are complete for a client that asked for the XOR
\* cipher, and a FileRequest is on its way.
C7_Witness ==
    /\ handler.handshake_completed
    /\ client.connected
    /\ client.security_level = "FAST"
    /\ handler.crypto_engine = client.crypto_engine
    /\ c2s # <<>>

\* C8: no handshake frame is written encrypted, and no side decrypts a
\* frame it reads before its own handshake is complete.
C8_HandshakeInCleartext ==
    \A i \in DOMAIN log :
        /\ (log[i].ev = "send" /\ log[i].type \in {"HANDSHAKE_REQUEST", "HANDSHAKE_RESPONSE"})
               => ~log[i].enc
        /\ (log[i].ev = "recv" /\ ~log[i].done) => ~log[i].dec

\* C9: the FileResponse to a FileRequest that succeeds carries
\* resume_offset 0 when the request's resume_offset is 0, and otherwise
\* the size on disk of the destination, 0 if it is absent.
C9_ResumeOffset ==
    [][(Handles("FILE_REQUEST") /\ last'.reply.success)
        => last'.reply.resume_offset
               = IF last'.msg.resume_offset = 0 THEN 0
                 ELSE Len(OnDisk(fs, handler'.current_file_path))]_vars

\* A resume of a file that is on disk has been answered with its size.
C9_Witness ==
    /\ last.msg.type = "FILE_REQUEST"
    /\ last.msg.resume_offset > 0
    /\ last.reply.success
    /\ last.reply.resume_offset = 2

\* What the claim allows a file that held old to hold after data has
\* been written at offset.
WrittenAsClaimed(old, new, offset, data) ==
    IF offset = 0 THEN new = data
    ELSE /\ Len(new) >= Len(old)
         /\ \A i \in 1..Len(old) : (i <= offset \/ i > offset + Len(data)) => new[i] = old[i]
         /\ \A j \in 1..Len(data) : new[offset + j] = data[j]

\* A path at which a regular file can be opened or created: it names no
\* directory and its parent is one.
Writable(f, path) ==
    /\ Phys(f, path) \notin f.dirs
    /\ SubSeq(Phys(f, path), 1, Len(Phys(f, path)) - 1) \in f.dirs

\* C10: a FileData applied to a current_file_path that is no marker
\* leaves the file holding exactly data when offset is 0, and otherwise
\* the bytes of the file outside the written range as they were and data
\* from offset on; the file exists afterwards.  The write is refused only
\* when no file can be opened at the path, and then no file changes.
C10_WriteFileChunk ==
    [][(Handles("FILE_DATA")
            /\ handler.current_file_path # <<>>
            /\ ~is_marker_file(get_filename(handler.current_file_path)))
        => IF last'.reply.success
           THEN /\ Phys(fs', handler.current_file_path) \in DOMAIN fs'.files
                /\ WrittenAsClaimed(OnDisk(fs, handler.current_file_path),
                                    OnDisk(fs', handler.current_file_path),
                                    last'.msg.offset, last'.msg.data)
           ELSE /\ ~Writable(fs', handler.current_file_path)
                /\ fs'.files = fs.files]_vars

\* A byte has been written at offset 1 of a file of two bytes, the first
\* of which is as it was.
C10_Witness ==
    /\ last.msg.type = "FILE_DATA"
    /\ last.msg.offset = 1
    /\ last.msg.data = <<65>>
    /\ last.reply.success
    /\ handler.current_file_path = <<"/", "srv", "/", "old", ".txt">>
    /\ OnDisk(fs, handler.current_file_path) = <<66, 65>>

\* C11: when a resume transfer of a source of N bytes returns without
\* error, the destination file has size exactly N, whatever size it had
\* before the request.  Stated for the sources the client does not
\* compress, whose chunks are written as they are read.
C11_ResumeCompletes ==
    (client.pc = "done" /\ client.resume /\ ~is_compressible(client.local_path))
        => Len(OnDisk(fs, handler.current_file_path)) = Len(client.content)

\* C12: a message the handler receives in the wrong state, a FileData
\* before any FileRequest or a HandshakeRequest after the handshake, ends
\* the connection: the handler leaves its loop.
C12_WrongStateCloses ==
    [][((Handles("FILE_DATA") /\ handler.current_file_path = <<>>)
            \/ Handles("HANDSHAKE_REQUEST"))
        => handler'.pc = "closed"]_vars

\* C13: when the write of a FileData chunk fails, the file at
\* current_file_path cannot be opened, the handler answers with a FileAck
\* that carries success = false and a non-empty error_message and stays
\* in its loop; the FileRequest or FileData it receives next is answered.
C13_WriteFailureReported ==
    [][/\ (Handles("FILE_DATA")
              /\ handler.current_file_path # <<>>
              /\ ~is_marker_file(get_filename(handler.current_file_path))
              /\ ~Writable(fs, handler.current_file_path))
          => /\ last'.reply.type = "FILE_ACK"
             /\ ~last'.reply.success
             /\ last'.reply.error_message # <<>>
             /\ s2c' = <<ServerFrame(handler, last'.reply)>>
             /\ handler'.pc = "loop"
       /\ (WriteFailed(last.reply) /\ (Handles("FILE_REQUEST") \/ Handles("FILE_DATA")))
          => /\ last'.reply.type \in {"FILE_RESPONSE", "FILE_ACK"}
             /\ s2c' = <<ServerFrame(handler, last'.reply)>>]_vars

\* A message has been answered after the write of a chunk had failed.
C13_Witness ==
    /\ last.before = "write failed"
    /\ last.msg.type \in {"FILE_REQUEST", "FILE_DATA"}
    /\ last.reply.type \in {"FILE_RESPONSE", "FILE_ACK"}
    /\ handler.pc = "loop"

\* A destination that passes the path policy of handle_file_request: it
\* is allowed and absolute.
PassesPolicy(f, allowed_paths, destination) ==
    /\ is_path_allowed(allowed_paths, f, destination)
    /\ is_absolute_path(convert_to_native_path(destination))

\* A request to resume a file whose path names a directory.
ResumesDirectory(f, request) ==
    /\ request.resume_offset > 0
    /\ is_directory(f, WithFilename(f, resolve_path(request.destination_path),
                                    request.source_path))

\* C14: a FileRequest rejected by the path policy leaves the handler in
\* its loop, and the FileRequest that follows it, if its destination
\* passes the policy, is answered with success = true unless it asks to
\* resume a path that names a directory.
C14_AfterDenial ==
    [][/\ (Handles("FILE_REQUEST") /\ Denied(last'.reply)) => handler'.pc = "loop"
       /\ (Handles("FILE_REQUEST")
              /\ Denied(last.reply)
              /\ PassesPolicy(fs, server_config.allowed_paths, last'.msg.destination_path)
              /\ ~ResumesDirectory(fs, last'.msg))
          => last'.reply.success]_vars

\* A FileRequest has been accepted after one that the policy rejected.
C14_Witness ==
    /\ last.before = "denied"
    /\ last.msg.type = "FILE_REQUEST"
    /\ last.reply.success

\* C14, as stated: the FileRequest that follows one rejected by the path
\* policy is answered with success = true whenever its destination is
\* allowed.
C14_AsStated ==
    [][(Handles("FILE_REQUEST")
            /\ Denied(last.reply)
            /\ PassesPolicy(fs, server_config.allowed_paths, last'.msg.destination_path))
        => last'.reply.success]_vars

\* C18: a message of any kind, with any members, that has gone through
\* Message::serialize and Message::deserialize comes back as a message
\* of the same kind with every member as it was, the compressed member
\* of a FileData included.
C18_RoundTrip ==
    wire.pc = "decoded" => wire.decoded.ok /\ wire.decoded.msg = wire.message

\* C19: for each of the four suites and every plaintext x, the empty
\* one included, decrypt of encrypt(x) by an engine made from the same
\* key raises nothing and returns x.
C19_DecryptInvertsEncrypt ==
    (wire.pc = "decrypted" /\ ~wire.tampered)
        => wire.result.ok /\ wire.result.data = wire.x

\* C20: for the suites HIGH and AES_256_GCM, decrypt of an envelope of
\* which one byte has been replaced with another value raises an error.
C20_TamperDetected ==
    (wire.pc = "decrypted" /\ wire.tampered /\ wire.suite \in {"HIGH", "AES_256_GCM"})
        => ~wire.result.ok

\* C15: however the bytes of the stream arrive, every buffer that
\* receive_message hands to decrypt_message and Message::deserialize is
\* the body of the frame the peer sent in that place: a receive that
\* returns fewer bytes than asked for changes no frame.  Stated for the
\* peers whose frames are as long as they announce.
C15_FramesAsSent ==
    (\A i \in 1..Len(wire.sent) : wire.sent[i] # Truncated)
        => \A i \in 1..Len(wire.received) :
              i <= Len(wire.sent) /\ wire.received[i] = wire.sent[i]

\* C16: a frame that announces a length above the cap, here any length
\* from HugeLength on, is refused before a buffer of that length is
\* allocated.
C16_LengthCapped == wire.allocated < HugeLength

\* C17: when the bytes that reach Message::deserialize carry a header
\* whose kind is none of the decodable ones, the handler answers
\* nothing, writes nothing and closes the connection; a closed
\* connection takes no further step.
C17_UnknownKindCloses ==
    [][/\ (Len(wire'.received) = Len(wire.received) + 1
              /\ wire'.kind \notin {MessageType[k] : k \in Decodable}
              /\ wire'.kind # 0)
          => /\ wire'.pc = "closed"
             /\ wire'.answered = wire.answered
             /\ wire'.written = wire.written
             /\ fs' = fs
             /\ s2c' = s2c
       /\ wire.pc # "closed"]_vars

\* A frame of the kind RESUME_REQUEST has been received after a frame
\* that was answered, and the connection is closed.
C17_Witness ==
    /\ wire.pc = "closed"
    /\ wire.kind = MessageType.RESUME_REQUEST
    /\ wire.answered = 1
    /\ Len(wire.received) = 2
    /\ wire.stream = <<>>

\* ---------------------------------------------------------------------
\* The listener: Server::start, accept_connections, handle_client,
\* cleanup_threads and stop, with the worker threads they start.

\* The connections clients open while the server runs.
MaxConns == 2

Conns == 1..MaxConns

\* A worker that has not been started: no thread, no ConnectionHandler.
Unborn ==
    [pc |-> "unborn", handler |-> InitHandler, n |-> 0, msg |-> NoMsg,
     level |-> "none", path |-> <<>>]

\* The Server after start() has bound and listened on the socket and set
\* running_, at the head of the loop of accept_connections.
InitServerObject ==
    [running        |-> TRUE,
     listening      |-> TRUE,
     arrived        |-> 0,
     pending        |-> {},
     listener       |-> "test",
     stopper        |-> "idle",
     worker_threads |-> <<>>,
     workers        |-> [c \in Conns |-> Unborn],
     aborted        |-> FALSE]

\* What the listener steps leave alone.
one_connection == <<wire, server_config, server_crypto, client_config,
                    handler, client, c2s, s2c, log, last>>

\* The ConnectionHandler handle_client builds for connection c: a local
\* object of the worker thread, made from the socket, a copy of config_
\* and the shared crypto_.
handle_client_shared(workers, c) ==
    IF c > 1 /\ workers[c - 1].pc # "unborn"
    THEN [workers[c - 1].handler EXCEPT !.pc = "handshake"]
    ELSE InitHandler

handle_client(workers, c) == InitHandler

\* Every thread of worker_threads_ has ended, so that join() returns.
AllJoined ==
    \A i \in 1..Len(server.worker_threads) :
        server.workers[server.worker_threads[i]].pc = "finished"

\* A client connects: the kernel queues the connection on the listening
\* socket, which is open or held open by the accept() blocked on it.
Connect ==
    /\ server.listener \notin {"none", "exited"}
    /\ ~server.aborted
    /\ server.listening \/ server.listener = "accept"
    /\ server.arrived < MaxConns
    /\ server' = [server EXCEPT !.arrived = @ + 1,
                                !.pending = @ \cup {server.arrived + 1}]
    /\ UNCHANGED <<one_connection, fs>>

\* while (running_)
ListenerTest ==
    /\ server.listener = "test"
    /\ server' = [server EXCEPT !.listener = IF server.running THEN "call"
                                              ELSE "exited"]
    /\ UNCHANGED <<one_connection, fs>>

\* listen_socket_->accept() is entered: on the open socket it blocks, on
\* a closed one it raises NetworkException, which the loop catches.
ListenerCall ==
    /\ server.listener = "call"
    /\ server' = [server EXCEPT !.listener = IF server.listening THEN "accept"
                                              ELSE "test"]
    /\ UNCHANGED <<one_connection, fs>>

\* accept() returns the oldest queued connection and the loop starts its
\* worker thread with emplace_back. A close() of the descriptor by
\* another thread does not end an accept() that is blocked on it.
ListenerAccept ==
    /\ server.listener = "accept"
    /\ server.pending # {}
    /\ \E c \in {CHOOSE p \in server.pending : \A q \in server.pending : p <= q} :
          server' = [server EXCEPT
                        !.pending = @ \ {c},
                        !.worker_threads = Append(@, c),
                        !.workers[c] = [Unborn EXCEPT
                                            !.pc = "running",
                                            !.handler = handle_client(server.workers, c)],
                        !.listener = "cleanup"]
    /\ UNCHANGED <<one_connection, fs>>

\* The accept() blocked on the socket fails once stop() has closed it.
ListenerInterrupted ==
    /\ server.listener = "accept"
    /\ ~server.listening
    /\ server' = [server EXCEPT !.listener = "test"]
    /\ UNCHANGED <<one_connection, fs>>

\* cleanup_threads() in the loop: remove_if joins every joinable thread
\* of worker_threads_, the one just started included, and returns when
\* all of them have ended.
ListenerCleanup ==
    /\ server.listener = "cleanup"
    /\ AllJoined
    /\ server' = [server EXCEPT !.worker_threads = <<>>, !.listener = "test"]
    /\ UNCHANGED <<one_connection, fs>>

\* The requests, levels and chunks the clients of the workers send.
WorkerLevels == {"HIGH", "FAST"}

WorkerRequests ==
    {FileRequest(<<"a", ".txt">>, d, 0) :
        d \in {<<"/", "srv", "/", "f", ".txt">>, <<"/", "srv", "/", "n", "/", "g">>}}

WorkerData == {FileData(0, <<65>>, TRUE)}

Working(c) ==
    /\ server.listener # "none"
    /\ server.workers[c].pc = "running"
    /\ server.workers[c].n < MaxMsgs

\* The worker of connection c reads the HandshakeRequest of its client.
WorkerHandshake(c) ==
    /\ Working(c)
    /\ server.workers[c].handler.pc = "handshake"
    /\ \E level \in WorkerLevels :
       \E hs \in {perform_handshake(server.workers[c].handler, server_config,
                                    server_crypto, HandshakeRequest(level))} :
          server' = [server EXCEPT !.workers[c].handler = hs.handler,
                                   !.workers[c].n = @ + 1,
                                   !.workers[c].msg = HandshakeRequest(level),
                                   !.workers[c].level = level]
    /\ UNCHANGED <<one_connection, fs>>

\* The worker of connection c handles a FileRequest of its client.
WorkerFileRequest(c) ==
    /\ Working(c)
    /\ server.workers[c].handler.pc = "loop"
    /\ \E request \in WorkerRequests :
       \E res \in {handle_file_request(server_config.allowed_paths,
                                       server.workers[c].handler.current_file_path,
                                       fs, request)} :
          /\ server' = [server EXCEPT
                           !.workers[c].handler.current_file_path = res.current_file_path,
                           !.workers[c].n = @ + 1,
                           !.workers[c].msg = request,
                           !.workers[c].path = res.current_file_path]
          /\ fs' = res.fs
    /\ UNCHANGED one_connection

\* The worker of connection c handles a FileData of its client.
WorkerFileData(c) ==
    /\ Working(c)
    /\ server.workers[c].handler.pc = "loop"
    /\ \E data \in WorkerData :
       \E res \in {handle_file_data(server.workers[c].handler.current_file_path,
                                    fs, data)} :
          /\ server' = [server EXCEPT !.workers[c].n = @ + 1,
                                      !.workers[c].msg = data]
          /\ fs' = res.fs
    /\ UNCHANGED one_connection

\* The client of connection c closes it: receive_message raises, handle()
\* returns and the thread of the worker ends.
WorkerDisconnected(c) ==
    /\ server.listener # "none"
    /\ server.workers[c].pc = "running"
    /\ server' = [server EXCEPT !.workers[c].pc = "finished",
                                !.workers[c].handler.pc = "closed",
                                !.workers[c].n = 0,
                                !.workers[c].msg = NoMsg]
    /\ UNCHANGED <<one_connection, fs>>

\* stop(), called by another thread: if (running_) running_ = false
Stop ==
    /\ server.listener # "none"
    /\ server.stopper = "idle"
    /\ server.running
    /\ server' = [server EXCEPT !.running = FALSE, !.stopper = "close"]
    /\ UNCHANGED <<one_connection, fs>>

\* stop(): listen_socket_->close(). The connections still queued on the
\* socket are dropped with it, unless an accept() under way holds it.
StopClose ==
    /\ server.stopper = "close"
    /\ server' = [server EXCEPT
                     !.listening = FALSE,
                     !.stopper = "cleanup",
                     !.pending = IF server.listener = "accept" THEN @ ELSE {}]
    /\ UNCHANGED <<one_connection, fs>>

\* stop(): cleanup_threads() joins the workers and returns when all of
\* them have ended.
StopCleanup ==
    /\ server.stopper = "cleanup"
    /\ AllJoined
    /\ server' = [server EXCEPT !.worker_threads = <<>>, !.stopper = "done"]
    /\ UNCHANGED <<one_connection, fs>>

\* stop() and the loop are both in cleanup_threads(): two threads run
\* remove_if on worker_threads_ and join the same std::thread with no
\* lock. One of the outcomes of this race is a std::system_error that
\* leaves stop() and ends the process with its workers; the others are
\* the steps ListenerCleanup and StopCleanup.
CleanupRace ==
    /\ server.stopper = "cleanup"
    /\ server.listener = "cleanup"
    /\ server.worker_threads # <<>>
    /\ server' = [server EXCEPT
                     !.aborted = TRUE,
                     !.listener = "exited",
                     !.stopper = "done",
                     !.workers = [c \in Conns |->
                                     IF @[c].pc = "running"
                                     THEN [@[c] EXCEPT !.pc = "killed", !.n = 0,
                                                       !.msg = NoMsg]
                                     ELSE @[c]]]
    /\ UNCHANGED <<one_connection, fs>>

ListenerStep ==
    \/ ListenerTest
    \/ ListenerCall
    \/ ListenerAccept
    \/ ListenerCleanup

NextListener ==
    \/ Connect
    \/ ListenerStep
    \/ ListenerInterrupted
    \/ \E c \in Conns : WorkerHandshake(c)
    \/ \E c \in Conns : WorkerFileRequest(c)
    \/ \E c \in Conns : WorkerFileData(c)
    \/ \E c \in Conns : WorkerDisconnected(c)
    \/ Stop
    \/ StopClose
    \/ StopCleanup
    \/ CleanupRace

InitListener ==
    /\ server_config = [secret_key |-> "K", require_auth |-> TRUE,
                        allowed_paths |-> AllowedPaths]
    /\ server_crypto = "K"
    /\ client_config = [secret_key |-> "K", buffer_size |-> 1]
    /\ fs = InitFs
    /\ handler = InitHandler
    /\ client = InitClient("HIGH")
    /\ c2s = <<>>
    /\ s2c = <<>>
    /\ log = <<>>
    /\ last = [n |-> 0, msg |-> NoMsg, reply |-> NoMsg, before |-> "none"]
    /\ wire = NoWire
    /\ server = InitServerObject

SpecListener == InitListener /\ [][NextListener]_vars

\* The thread in accept_connections runs whenever it is not blocked. The
\* workers wait for their clients and the caller of stop() is another
\* program, so neither is bound to take a step.
SpecListenerFair == SpecListener /\ WF_vars(ListenerStep)

\* ---------------------------------------------------------------------
\* Client::transfer_directory and create_empty_directory

\* The entries a source directory may hold, as paths relative to it:
\* the directories s, s/t and e and the files g, s/f and s/t/h.
TreeDirs == {<<"s">>, <<"s", "/", "t">>, <<"e">>}

TreeFiles == {<<"g">>, <<"s", "/", "f">>, <<"s", "/", "t", "/", "h">>}

\* The trees: an entry is in one with the directory that holds it.
Trees ==
    {t \in SUBSET (TreeDirs \cup TreeFiles) :
        \A p \in t : get_directory(p) # <<>> => get_directory(p) \in t}

\* FileManager::list_directory: every entry beneath the directory, or
\* those directly in it.
list_directory(tree, recursive) ==
    {[path |-> p, is_directory |-> p \in TreeDirs] :
        p \in {q \in tree : recursive \/ get_directory(q) = <<>>}}

\* base_remote_path: the remote path and the name of the source directory.
base_remote_path(local_path, remote_path) ==
    join_path(remote_path, get_filename(local_path))

\* The path on the network of the entry at relative_path.
network_path(c, relative_path) ==
    convert_to_unix_path(join_path(base_remote_path(c.local_path, c.remote_path),
                                   relative_path))

\* The loop over the directory of a transferred file and its parents,
\* marking the directory only and none of its parents.
ParentOnly(file_dir) ==
    IF file_dir = <<>> \/ file_dir = <<"/">> \/ file_dir = <<".">> THEN {}
    ELSE {file_dir}

\* The loop over the directory of a transferred file and its parents.
RECURSIVE Parents(_)
Parents(file_dir) ==
    IF file_dir = <<>> \/ file_dir = <<"/">> \/ file_dir = <<".">> THEN {}
    ELSE IF get_directory(file_dir) = file_dir THEN {file_dir}
    ELSE {file_dir} \cup Parents(get_directory(file_dir))

\* create_empty_directory: the marker file of remote_path.
marker_file(remote_path) ==
    (IF remote_path # <<>> /\ remote_path[Len(remote_path)] \notin {"/", "\\"}
     THEN remote_path \o <<"/">> ELSE remote_path) \o <<".netcopy_empty_dir">>

\* transfer_directory has listed the source directory and made
\* directories_to_create in its first pass.
InitDirectory ==
    /\ server_config = [secret_key |-> "K", require_auth |-> TRUE,
                        allowed_paths |-> AllowedPaths]
    /\ server_crypto = "K"
    /\ \E flag \in BOOLEAN :
          client_config = [secret_key |-> "K", buffer_size |-> 1,
                           create_empty_directories |-> flag]
    /\ fs = InitFs
    /\ handler = InitHandler
    /\ \E tree \in Trees, recursive \in BOOLEAN,
          local_path \in {<<"x", "/", "d">>, <<"x", "/", "d", "/">>},
          remote_path \in {<<"/", "srv">>, <<"/", "srv", "/">>} :
          LET c == [pc |-> "files", local_path |-> local_path,
                    remote_path |-> remote_path,
                    files |-> list_directory(tree, recursive)]
          IN client = [pc |-> "files",
                       local_path |-> local_path,
                       remote_path |-> remote_path,
                       recursive |-> recursive,
                       files |-> c.files,
                       directories_to_create |->
                           {network_path(c, e.path) : e \in {x \in c.files : x.is_directory}},
                       created_directories |-> {},
                       transferred |-> {},
                       visited |-> {},
                       sent |-> <<>>]
    /\ c2s = <<>>
    /\ s2c = <<>>
    /\ log = <<>>
    /\ last = [n |-> 0, msg |-> NoMsg, reply |-> NoMsg, before |-> "none"]
    /\ wire = NoWire
    /\ server = NoServer

\* What transfer_directory leaves alone.
beside_client == <<server, wire, server_config, server_crypto, client_config, fs,
                   handler, c2s, s2c, log, last>>

\* Second pass: transfer_single_file for an entry that is no directory.
\* The order of the entries is that of the directory iterator.
TransferListedFile ==
    /\ client.pc = "files"
    /\ \E e \in {x \in client.files : ~x.is_directory /\ x.path \notin client.transferred} :
       \E done \in BOOLEAN :
          LET path == network_path(client, e.path)
              request == FileRequest(join_path(client.local_path, e.path), path, 0)
          IN client' = IF done
                       THEN [client EXCEPT
                                !.sent = Append(@, request),
                                !.transferred = @ \cup {e.path},
                                !.created_directories = @ \cup Parents(get_directory(path))]
                       ELSE [client EXCEPT !.sent = Append(@, request), !.pc = "failed"]
    /\ UNCHANGED beside_client

\* The second pass is over: if (config_.create_empty_directories)
TransferFilesDone ==
    /\ client.pc = "files"
    /\ \A x \in client.files : ~x.is_directory => x.path \in client.transferred
    /\ client' = [client EXCEPT !.pc = IF client_config.create_empty_directories
                                       THEN "markers" ELSE "done"]
    /\ UNCHANGED beside_client

\* Third pass: one directory of directories_to_create; without an entry
\* in created_directories, create_empty_directory sends the FileRequest
\* for its marker file. (The set is walked in ascending order; any order
\* is followed here.)
CreateEmptyDirectory ==
    /\ client.pc = "markers"
    /\ \E dir_path \in client.directories_to_create \ client.visited :
          IF dir_path \in client.created_directories
          THEN client' = [client EXCEPT !.visited = @ \cup {dir_path}]
          ELSE \E done \in BOOLEAN :
                  LET request == FileRequest(<<".netcopy_dir_marker">>,
                                             marker_file(dir_path), 0)
                  IN client' = IF done
                               THEN [client EXCEPT !.sent = Append(@, request),
                                                   !.visited = @ \cup {dir_path}]
                               ELSE [client EXCEPT !.sent = Append(@, request),
                                                   !.pc = "failed"]
    /\ UNCHANGED beside_client

\* The third pass is over.
TransferDirectoryDone ==
    /\ client.pc = "markers"
    /\ client.directories_to_create \subseteq client.visited
    /\ client' = [client EXCEPT !.pc = "done"]
    /\ UNCHANGED beside_client

NextDirectory ==
    \/ TransferListedFile
    \/ TransferFilesDone
    \/ CreateEmptyDirectory
    \/ TransferDirectoryDone

SpecDirectory == InitDirectory /\ [][NextDirectory]_vars

\* The frames a side has written on the connection, in order.
Sent(side) == SelectSeq(log, LAMBDA e : e.ev = "send" /\ e.side = side)

\* C25: the sequence_number in the headers of the frames one side
\* writes on a connection is 1 in the first frame and greater in every
\* frame than in the frame before it.
C25_SequenceNumbers ==
    \A side \in {"client", "server"} :
        /\ Sent(side) # <<>> => Sent(side)[1].sequence_number = 1
        /\ \A i \in 2..Len(Sent(side)) :
               Sent(side)[i].sequence_number > Sent(side)[i - 1].sequence_number

\* C26: for a source file of size 0 the client writes exactly one
\* FileData, with offset 0, no data and is_last_chunk set, and returns
\* once it has read the FileAck of it; the destination file then exists
\* and is empty, whatever it held before.
C26_EmptySource ==
    /\ (client.content = <<>> /\ client.pc \in {"await_ack", "done"})
           => Count("send", "client", "FILE_DATA") = 1
    /\ (client.content = <<>> /\ client.pc = "await_ack")
           => \A i \in DOMAIN c2s :
                  c2s[i].msg.type = "FILE_DATA" => c2s[i].msg = FileData(0, <<>>, TRUE)
    /\ (client.content = <<>> /\ client.pc = "done")
           => /\ Count("recv", "client", "FILE_ACK") = 1
              /\ Phys(fs, handler.current_file_path) \in DOMAIN fs.files
              /\ OnDisk(fs, handler.current_file_path) = <<>>

\* An empty source has been sent, as a resume, to a destination that
\* held two bytes.
C26_Witness ==
    /\ client.pc = "done"
    /\ client.content = <<>>
    /\ client.resume
    /\ handler.current_file_path = <<"/", "srv", "/", "old", ".txt">>
    /\ OnDisk(fs, handler.current_file_path) = <<>>

\* C27: while current_file_path has the basename .netcopy_empty_dir or
\* .netcopy_dir_marker, the FileRequest that set it and the FileData
\* that follows leave its parent existing as a directory and no file of
\* that name, and the FileData is acknowledged with success = true.
C27_MarkerMakesDirectory ==
    [][/\ (Handles("FILE_REQUEST")
              /\ last'.reply.success
              /\ is_marker_file(get_filename(handler'.current_file_path)))
          => /\ is_directory(fs', get_directory(handler'.current_file_path))
             /\ Phys(fs', handler'.current_file_path) \notin DOMAIN fs'.files
       /\ (Handles("FILE_DATA")
              /\ is_marker_file(get_filename(handler.current_file_path)))
          => /\ last'.reply.success
             /\ is_directory(fs', get_directory(handler.current_file_path))
             /\ Phys(fs', handler.current_file_path) \notin DOMAIN fs'.files]_vars

\* The last filename of a path string.
Basename(path) == ParsePath(path).comps[Len(ParsePath(path).comps)]

\* The path of the entry name in the directory a path string names.
EntryOf(directory, name) ==
    UnparsePath([abs   |-> ParsePath(directory).abs,
                 comps |-> Append(ParsePath(directory).comps, name),
                 trail |-> FALSE])

\* C28: a FileRequest that passes the path policy sets current_file_path
\* to the resolved destination, unless that ends in a separator or names
\* a directory on disk: then to the entry of that directory named by the
\* basename of source_path.
C28_DirectoryTakesBasename ==
    [][(Handles("FILE_REQUEST")
            /\ PassesPolicy(fs, server_config.allowed_paths, last'.msg.destination_path))
        => handler'.current_file_path =
               IF \/ ParsePath(resolve_path(last'.msg.destination_path)).trail
                  \/ Phys(fs, resolve_path(last'.msg.destination_path)) \in fs.dirs
               THEN EntryOf(resolve_path(last'.msg.destination_path),
                            Basename(last'.msg.source_path))
               ELSE resolve_path(last'.msg.destination_path)]_vars

\* A request for a directory named without a trailing separator has set
\* current_file_path to the entry of the source's basename in it.
C28_Witness ==
    /\ last.msg.type = "FILE_REQUEST"
    /\ last.msg.destination_path = <<"/", "srv", "/", "d">>
    /\ last.msg.source_path = <<"x", "/", "d">>
    /\ handler.current_file_path = <<"/", "srv", "/", "d", "/", "d">>

\* C29: a FileRequest whose destination does not start at the root, with
\* either separator, is answered with a FileResponse that carries
\* success = false, and no directory and no file is created for it.
C29_RelativeRefused ==
    [][(Handles("FILE_REQUEST")
            /\ ~ParsePath(convert_to_unix_path(last'.msg.destination_path)).abs)
        => /\ last'.reply.type = "FILE_RESPONSE"
           /\ ~last'.reply.success
           /\ s2c' = <<ServerFrame(handler, last'.reply)>>
           /\ fs' = fs]_vars

\* A relative destination that lies under an allowed path has been
\* refused for being relative.
C29_Witness ==
    /\ last.msg.type = "FILE_REQUEST"
    /\ last.msg.destination_path = <<"srv", "/", "f">>
    /\ ~last.reply.success
    /\ IsPrefix(<<"File error: ",
                  "Relative paths are not allowed. All paths must be absolute. Path: ">>,
                last.reply.error_message)

\* The message is the end of what(): the exception was made of a prefix
\* and the message.
Carries(what, message) ==
    /\ message # <<>>
    /\ Len(what) > Len(message)
    /\ SubSeq(what, Len(what) - Len(message) + 1, Len(what)) = message

\* The client reads a FileResponse, or a FileAck, that reports failure.
ReadsFailure(pc, type) ==
    /\ client.pc = pc
    /\ s2c # <<>>
    /\ s2c' = Tail(s2c)
    /\ ClientReceive.ok
    /\ ClientReceive.msg.type = type
    /\ ~ClientReceive.msg.success

\* C30: when the client reads a FileResponse that reports failure, or a
\* FileAck that does, the call ends with an exception whose what() ends
\* in the error_message of the server, and the client writes no FileData
\* from then on.
C30_FailureEndsTransfer ==
    [][/\ (ReadsFailure("await_response", "FILE_RESPONSE")
              \/ ReadsFailure("await_ack", "FILE_ACK"))
          => /\ client'.pc = "failed"
             /\ Carries(client'.error, ClientReceive.msg.error_message)
             /\ c2s' = c2s
       /\ client.pc = "failed" => (client' = client /\ Len(c2s') <= Len(c2s))]_vars

\* A transfer has ended on a FileAck that reported a failed write.
C30_Witness ==
    /\ client.pc = "failed"
    /\ IsPrefix(<<"File error: ", "Transfer failed: ", "File error: ">>, client.error)
    /\ Count("send", "client", "FILE_DATA") = 1

\* The frames of a kind that a side has written or read.
Events(l, ev, side, type) ==
    SelectSeq(l, LAMBDA e : e.ev = ev /\ e.side = side /\ e.type = type)

\* C24: the first frame the handler reads ends the connection unless it
\* is a HandshakeRequest, with nothing answered and nothing written to
\* disk, and the handler dispatches a FileRequest or a FileData only
\* after it has read a HandshakeRequest and written its
\* HandshakeResponse.  The first frame the client reads after it has
\* written its HandshakeRequest ends the connection unless it is a
\* HandshakeResponse, and the client writes a FileRequest only after it
\* has read one.
C24_HandshakeFirst ==
    [][/\ (handler.pc = "handshake"
              /\ handler'.pc # "handshake"
              /\ ~(ServerReceive.ok /\ ServerReceive.msg.type = "HANDSHAKE_REQUEST"))
          => /\ handler'.pc = "closed"
             /\ s2c' = s2c
             /\ fs' = fs
             /\ last' = last
       /\ (Handles("FILE_REQUEST") \/ Handles("FILE_DATA"))
          => /\ Events(log, "recv", "server", "HANDSHAKE_REQUEST") # <<>>
             /\ Events(log, "send", "server", "HANDSHAKE_RESPONSE") # <<>>
       /\ (client.pc = "handshake"
              /\ client'.pc # "handshake"
              /\ s2c # <<>>
              /\ ~(ClientReceive.ok /\ ClientReceive.msg.type = "HANDSHAKE_RESPONSE"))
          => /\ client'.pc = "failed"
             /\ ~client'.connected
             /\ c2s' = c2s
       /\ (Events(log', "send", "client", "FILE_REQUEST") # <<>>)
          => Events(log, "recv", "client", "HANDSHAKE_RESPONSE") # <<>>]_vars

\* The handler has ended on a first frame that was a FileRequest in the
\* clear, and the client on a first frame that was a FileResponse in the
\* envelope of its engine.
C24_Witness ==
    /\ handler.pc = "closed"
    /\ ~handler.handshake_completed
    /\ Events(log, "recv", "server", "FILE_REQUEST") # <<>>
    /\ client.pc = "failed"
    /\ client.error = <<"Protocol error: ", "Invalid handshake response">>
    /\ Events(log, "recv", "client", "FILE_RESPONSE") # <<>>
    /\ fs = InitFs

\* C21: while the server runs, a connection that a client has opened is
\* accepted and handed to a worker thread of its own, whatever the
\* workers of earlier connections are doing: a connection waiting on the
\* listening socket does not wait for another connection to end.
\* (The behaviour that refutes it: the worker of connection 1 waits for a
\* client that sends nothing more and does not disconnect, the listener
\* waits in join() for that worker, and connection 2 stays queued.)
C21_EveryConnectionGetsAWorker ==
    \A c \in Conns :
        (c \in server.pending /\ server.stopper = "idle")
            ~> (c \notin server.pending \/ server.stopper # "idle")

\* The worker of connection c takes a step of its handler.
ActsOn(c) == server'.workers[c].n = server.workers[c].n + 1

C23_StopEndsAccepting ==
    [][server.listener # "none" /\ server.stopper \in {"cleanup", "done"}
          => \A c \in Conns :
                /\ server.workers[c].pc = "unborn" => server'.workers[c].pc = "unborn"
                /\ server'.workers[c].pc # "killed"]_vars

\* C31: the HandshakeResponse the server writes carries as
\* accepted_security_level the security_level of the HandshakeRequest it
\* has just read, and as authentication_required the require_auth of
\* its configuration.
C31_ResponseEchoesRequest ==
    [][(handler.pc = "handshake" /\ c2s # <<>> /\ Len(s2c') = Len(s2c) + 1)
          => /\ ServerReceive.ok
             /\ ServerReceive.msg.type = "HANDSHAKE_REQUEST"
             /\ s2c'[Len(s2c')].msg.type = "HANDSHAKE_RESPONSE"
             /\ s2c'[Len(s2c')].msg.accepted_security_level
                    = ServerReceive.msg.security_level
             /\ s2c'[Len(s2c')].msg.authentication_required
                    = server_config.require_auth]_vars

\* A server that does not require authentication has answered a
\* HandshakeRequest for FAST.
C31_Witness ==
    /\ ~server_config.require_auth
    /\ handler.handshake_completed
    /\ \E i \in DOMAIN s2c :
          /\ s2c[i].msg.type = "HANDSHAKE_RESPONSE"
          /\ s2c[i].msg.accepted_security_level = "FAST"
          /\ ~s2c[i].msg.authentication_required

\* C32: a FileAck with success = true carries as bytes_received the
\* offset of the FileData it answers plus the length of its data.
C32_AckCountsToEndOfChunk ==
    [][(Handles("FILE_DATA") /\ last'.reply.success)
          => /\ last'.reply.type = "FILE_ACK"
             /\ last'.reply.bytes_received
                    = last'.msg.offset + Len(last'.msg.data)]_vars

\* A chunk of one byte at offset 1 of a file has been acknowledged, and
\* the file holds it.
C32_Witness ==
    /\ last.msg.type = "FILE_DATA"
    /\ last.msg.offset = 1
    /\ Len(last.msg.data) = 1
    /\ last.reply.type = "FILE_ACK"
    /\ last.reply.success
    /\ last.reply.bytes_received = 2
    /\ handler.current_file_path # <<>>
    /\ ~is_marker_file(get_filename(handler.current_file_path))
    /\ Len(OnDisk(fs, handler.current_file_path)) >= 2

\* The file or directory at k is at or beneath one of the bases.
Within(f, allowed_paths, k) ==
    \E i \in 1..Len(allowed_paths) : IsPrefix(Phys(f, allowed_paths[i]), k)

\* C33: every file the server creates or changes and every directory it
\* creates is at or beneath one of the allowed base paths, whatever the
\* FileRequests and FileData it has handled, the requests for a
\* directory to which the basename of source_path is appended included.
C33_WritesWithinBases ==
    [][/\ \A k \in DOMAIN fs'.files :
             (k \notin DOMAIN fs.files \/ fs'.files[k] # fs.files[k])
                => Within(fs, server_config.allowed_paths, k)
       /\ \A d \in fs'.dirs \ fs.dirs :
             Within(fs, server_config.allowed_paths, d)]_vars

\* C34: for a file of N > 0 bytes, every FileData/FileAck exchange of
\* send_file_data leaves bytes_sent larger than it was, and the loop ends
\* with bytes_sent = N, whatever the resume offset and the buffer_size.
C34_SendLoopTerminates ==
    [][/\ (client.pc = "await_ack"
              /\ client'.pc \in {"await_ack", "done"}
              /\ s2c' # s2c
              /\ Len(client.content) > 0)
          => client'.bytes_sent > client.bytes_sent
       /\ (client.pc \in {"await_response", "await_ack"}
              /\ client'.pc = "done"
              /\ Len(client.content) > 0)
          => client'.bytes_sent = Len(client.content)]_vars

\* The client appends a FileData to what it has written.
SendsFileData ==
    /\ Len(c2s') = Len(c2s) + 1
    /\ c2s'[Len(c2s')].msg.type = "FILE_DATA"
    /\ Len(client.content) > 0

\* The chunk of the file that FileData m carries, before compression.
RawChunk(m) ==
    read_file_chunk(client.content, m.offset, Len(client.content) - m.offset)

\* The length of that chunk.
RawLen(m) ==
    IF is_compressible(client.local_path) THEN Len(m.data) - 1 ELSE Len(m.data)

\* C35: the FileData frames of one file of N > 0 bytes: the first has
\* the resume_offset the server reported as offset, every later one the
\* offset of the one before plus the length of its chunk before
\* compression; a chunk has min(buffer_size, N - offset) bytes of the
\* file; is_last_chunk is set on the chunk that reaches N and on no
\* other, and no FileData follows it.
C35_ChunkSequence ==
    [][/\ (SendsFileData /\ client.pc = "await_response")
          => c2s'[Len(c2s')].msg.offset = ClientReceive.msg.resume_offset
       /\ (SendsFileData /\ client.pc = "await_ack")
          => /\ last.msg.type = "FILE_DATA"
             /\ c2s'[Len(c2s')].msg.offset = last.msg.offset + RawLen(last.msg)
             /\ ~last.msg.is_last_chunk
       /\ SendsFileData
          => LET m == c2s'[Len(c2s')].msg
                 N == Len(client.content)
             IN /\ RawLen(m) = Min(client_config.buffer_size, N - m.offset)
                /\ m.data = IF is_compressible(client.local_path)
                            THEN compress_buffer(SubSeq(RawChunk(m), 1, RawLen(m)))
                            ELSE SubSeq(RawChunk(m), 1, RawLen(m))
                /\ m.is_last_chunk = (m.offset + RawLen(m) >= N)
       /\ (client.pc = "await_ack" /\ client'.pc = "done" /\ Len(client.content) > 0)
          => /\ last.msg.type = "FILE_DATA"
             /\ last.msg.is_last_chunk]_vars

\* A compressible file of two bytes has been sent in two chunks of one
\* byte, the second at offset 1 and marked as the last.
C35_Witness ==
    /\ client.pc = "done"
    /\ Len(client.content) = 2
    /\ is_compressible(client.local_path)
    /\ client_config.buffer_size = 1
    /\ ChunksSent = 2
    /\ last.msg.type = "FILE_DATA"
    /\ last.msg.offset = 1
    /\ last.msg.is_last_chunk

\* C36: a frame whose payload has been cut short, so that a field of the
\* message is missing or incomplete, is refused by Message::deserialize
\* with a ProtocolException, whatever the kind of the message: no message
\* is made of it.
C36_TruncatedRefused ==
    (wire.pc = "decoded" /\ Len(wire.data) < Len(Message_serialize(wire.message)))
        => ~wire.decoded.ok

\* The FileRequests for a marker file among those sent.
IsMarker(request) == is_marker_file(get_filename(request.destination_path))

\* The listed directories that hold no listed file, at any depth.
WithoutFiles ==
    {d.path : d \in {x \in client.files :
        /\ x.is_directory
        /\ ~\E f \in client.files :
               ~f.is_directory /\ IsPrefix(x.path \o <<"/">>, f.path)}}

\* C37: transfer_directory sends the FileRequest of a marker file only
\* when create_empty_directories is set and only when every listed file
\* has been transferred, and by its end for exactly the listed
\* directories that are not a parent, at any depth, of a transferred
\* file, once each; without the flag it sends none.
C37_MarkersForEmptyDirectories ==
       /\ \A i \in DOMAIN client.sent :
             IsMarker(client.sent[i])
                => /\ client_config.create_empty_directories
                   /\ \A f \in client.files : ~f.is_directory => f.path \in client.transferred
                   /\ \A j \in i..Len(client.sent) : IsMarker(client.sent[j])
       /\ client.pc = "done"
             => /\ {client.sent[i].destination_path :
                       i \in {j \in DOMAIN client.sent : IsMarker(client.sent[j])}}
                   = IF client_config.create_empty_directories
                     THEN {network_path(client, d) \o <<"/", ".netcopy_empty_dir">> :
                              d \in WithoutFiles}
                     ELSE {}
                /\ \A i, j \in DOMAIN client.sent :
                      client.sent[i].destination_path = client.sent[j].destination_path
                         => i = j

\* A tree with the file s/t/h and the empty directory e has been sent
\* with the flag set: the one marker is that of e, after the file.
C37_Witness ==
    /\ client.pc = "done"
    /\ client_config.create_empty_directories
    /\ client.recursive
    /\ client.transferred = {<<"s", "/", "t", "/", "h">>}
    /\ Len(client.sent) = 2
    /\ client.sent[2].destination_path
           = <<"/", "srv", "/", "d", "/", "e", "/", ".netcopy_empty_dir">>

\* C38: a FileRequest whose destination is absolute and lexically at or
\* beneath one of the allowed base paths passes the path check of the
\* server, also when its first component beneath the base begins with a
\* dot: it is not answered with "Access denied".
C38_BeneathBaseAccepted ==
    [][(Handles("FILE_REQUEST")
            /\ is_absolute_path(convert_to_native_path(last'.msg.destination_path))
            /\ LexicallyBeneath(server_config.allowed_paths, last'.msg.destination_path))
        => /\ is_path_allowed(server_config.allowed_paths, fs, last'.msg.destination_path)
           /\ last'.reply.error_message
                  # <<"File error: ", "Access denied to path: ">>
                        \o last'.msg.destination_path]_vars
====
